---- MODULE Spec2Model ----
(***************************************************************************)
(* The statistical analysis core of excel-analytics:                       *)
(*   backend/src/utils/fileAnalysis.js  (descriptive statistics)           *)
(*   analysisUtils (src/unnamed/part_000: charts, correlation, regression) *)
(* Every operation is a pure function of its arguments; a behaviour is one *)
(* call: the arguments are drawn in Init and the action applies the        *)
(* operation and records what it returned.                                 *)
(*                                                                         *)
(* JavaScript numbers are modelled as extended rationals <<n, d>>:         *)
(*   d > 0  the rational n/d in lowest terms                               *)
(*   <<1,0>> = Infinity, <<-1,0>> = -Infinity, <<0,0>> = NaN               *)
(* Arithmetic is exact (the rounding of IEEE doubles and the sign of zero  *)
(* are not modelled).  A square root is kept as sgn * sqrt(sq).            *)
(***************************************************************************)
EXTENDS Integers, Sequences, FiniteSets, TLC

VARIABLES data, request, pc, result

vars == <<data, request, pc, result>>

-----------------------------------------------------------------------------
(* Bounds of the model *)

MaxStatRows == 5
MaxCorrRows == 3
MaxRegRows == 4
MaxChartRows == 3
MaxFilterRows == 3
MaxFilters == 2
MaxInferRows == 5
MaxSampleTail == 1
MaxAnalyzeRows == 4
MaxInsightRows == 5
MaxGroupRows == 3
MaxTextRows == 4
MaxUsers == 3
MaxFiles == 1

-----------------------------------------------------------------------------
(* JavaScript numbers *)

NaN == <<0, 0>>
PosInf == <<1, 0>>
NegInf == <<-1, 0>>

Abs(i) == IF i < 0 THEN -i ELSE i
Sgn(i) == IF i < 0 THEN -1 ELSE IF i > 0 THEN 1 ELSE 0

RECURSIVE GCD(_, _)
GCD(a, b) == IF b = 0 THEN a ELSE GCD(b, a % b)

Norm(n, d) ==
    IF d = 0 THEN <<Sgn(n), 0>>
    ELSE LET g == GCD(Abs(n), Abs(d))
         IN  <<(Sgn(d) * n) \div g, Abs(d) \div g>>

FromInt(i) == <<i, 1>>
IsNaN(a) == a = NaN
IsFinite(a) == a[2] > 0

\* a + b, a * b, -a, a - b, a / b with the IEEE special cases
Add(a, b) ==
    IF IsNaN(a) \/ IsNaN(b) THEN NaN
    ELSE IF a[2] = 0 THEN (IF b[2] = 0 /\ b # a THEN NaN ELSE a)
    ELSE IF b[2] = 0 THEN b
    ELSE Norm(a[1] * b[2] + b[1] * a[2], a[2] * b[2])
Mul(a, b) == Norm(a[1] * b[1], a[2] * b[2])
Neg(a) == <<-a[1], a[2]>>
Sub(a, b) == Add(a, Neg(b))
Div(a, b) == Mul(a, Norm(b[2], b[1]))

\* a < b, a > b, a === b on numbers (false whenever NaN is involved)
Lt(a, b) ==
    /\ ~IsNaN(a) /\ ~IsNaN(b)
    /\ IF a[2] = 0 /\ b[2] = 0 THEN a[1] < b[1]
       ELSE IF a[2] = 0 THEN a[1] < 0
       ELSE IF b[2] = 0 THEN b[1] > 0
       ELSE a[1] * b[2] < b[1] * a[2]
Gt(a, b) == Lt(b, a)
NumEq(a, b) == ~IsNaN(a) /\ ~IsNaN(b) /\ a = b
Le(a, b) == Lt(a, b) \/ NumEq(a, b)

\* Math.min(a, b), Math.max(a, b), Math.abs(a)
MathMin(a, b) == IF IsNaN(a) \/ IsNaN(b) THEN NaN ELSE IF Lt(b, a) THEN b ELSE a
MathMax(a, b) == IF IsNaN(a) \/ IsNaN(b) THEN NaN ELSE IF Lt(a, b) THEN b ELSE a

\* Math.sqrt(a), kept exact: the value sgn * sqrt(sq); the square root of a
\* negative number or of NaN is NaN
MathSqrt(a) ==
    IF IsNaN(a) \/ Lt(a, FromInt(0)) THEN [sgn |-> 0, sq |-> NaN]
    ELSE [sgn |-> Sgn(a[1]), sq |-> a]
SurdIsNaN(r) == IsNaN(r.sq)
SurdIsZero(r) == r.sq = FromInt(0)

\* x[i] of a JavaScript array of numbers: undefined, hence NaN in arithmetic,
\* outside the array (indices here are 1-based)
At(x, i) == IF i \in DOMAIN x THEN x[i] ELSE NaN

-----------------------------------------------------------------------------
(* Cell values.  A string is its sequence of characters. *)

Num(i) == [t |-> "num", n |-> i, s |-> <<>>]
Str(chars) == [t |-> "str", n |-> 0, s |-> chars]
Undef == [t |-> "undef", n |-> 0, s |-> <<>>]
Null == [t |-> "null", n |-> 0, s |-> <<>>]

DigitChars == <<"0", "1", "2", "3", "4", "5", "6", "7", "8", "9">>
IsDigit(c) == \E i \in DOMAIN DigitChars : DigitChars[i] = c
DigitVal(c) == (CHOOSE i \in DOMAIN DigitChars : DigitChars[i] = c) - 1

RECURSIVE ParseNat(_)
ParseNat(s) ==
    IF s = <<>> THEN 0
    ELSE ParseNat(SubSeq(s, 1, Len(s) - 1)) * 10 + DigitVal(s[Len(s)])

AllDigits(s) == s # <<>> /\ \A i \in DOMAIN s : IsDigit(s[i])

\* s.trim() (the blank is the only white space of the model's strings)
RECURSIVE TrimLeft(_)
TrimLeft(s) == IF s # <<>> /\ Head(s) = " " THEN TrimLeft(Tail(s)) ELSE s
RECURSIVE TrimRight(_)
TrimRight(s) ==
    IF s # <<>> /\ s[Len(s)] = " " THEN TrimRight(SubSeq(s, 1, Len(s) - 1)) ELSE s
Trim(s) == TrimRight(TrimLeft(s))

RECURSIVE Pow10(_)
Pow10(k) == IF k = 0 THEN 1 ELSE 10 * Pow10(k - 1)

DigitsOrEmpty(s) == \A i \in DOMAIN s : IsDigit(s[i])

\* an unsigned decimal literal: digits, digits.digits, digits. or .digits
IsDecimalLiteral(s) ==
    \/ AllDigits(s)
    \/ \E i \in DOMAIN s :
         /\ s[i] = "."
         /\ DigitsOrEmpty(SubSeq(s, 1, i - 1))
         /\ DigitsOrEmpty(SubSeq(s, i + 1, Len(s)))
         /\ Len(s) > 1
DecimalValue(s) ==
    IF AllDigits(s) THEN FromInt(ParseNat(s))
    ELSE LET i == CHOOSE j \in DOMAIN s : s[j] = "."
             whole == SubSeq(s, 1, i - 1)
             frac == SubSeq(s, i + 1, Len(s))
         IN  Norm(ParseNat(whole) * Pow10(Len(frac)) + ParseNat(frac), Pow10(Len(frac)))

\* Number(string): white space is trimmed, "" is 0, an optionally signed
\* decimal literal is its value, anything else NaN (exponents, hexadecimal
\* literals and "Infinity" do not occur in the model's strings)
StringToNumber(str) ==
    LET s == Trim(str)
    IN  IF s = <<>> THEN FromInt(0)
        ELSE IF IsDecimalLiteral(s) THEN DecimalValue(s)
        ELSE IF s[1] = "-" /\ IsDecimalLiteral(Tail(s)) THEN Neg(DecimalValue(Tail(s)))
        ELSE IF s[1] = "+" /\ IsDecimalLiteral(Tail(s)) THEN DecimalValue(Tail(s))
        ELSE NaN

\* Number(value)
ToNumber(c) ==
    CASE c.t = "num" -> FromInt(c.n)
      [] c.t = "str" -> StringToNumber(c.s)
      [] c.t = "null" -> FromInt(0)
      [] OTHER -> NaN

RECURSIVE NatToString(_)
NatToString(i) ==
    IF i < 10 THEN <<DigitChars[i + 1]>>
    ELSE NatToString(i \div 10) \o <<DigitChars[(i % 10) + 1]>>

IntToString(i) == IF i < 0 THEN <<"-">> \o NatToString(-i) ELSE NatToString(i)

\* String(value), also the property key a value is turned into
ToString_(c) ==
    CASE c.t = "num" -> IntToString(c.n)
      [] c.t = "str" -> c.s
      [] c.t = "null" -> <<"n", "u", "l", "l">>
      [] OTHER -> <<"u", "n", "d", "e", "f", "i", "n", "e", "d">>

\* val !== null && val !== undefined && val !== ''
NonEmpty(c) == ~(c.t = "null" \/ c.t = "undef" \/ (c.t = "str" /\ c.s = <<>>))

\* array.map(f), array.filter(p) and array.reduce(f, init), left to right
MapSeq(F(_), s) == [i \in DOMAIN s |-> F(s[i])]

RECURSIVE FilterSeq(_, _)
FilterSeq(P(_), s) ==
    IF s = <<>> THEN <<>>
    ELSE (IF P(Head(s)) THEN <<Head(s)>> ELSE <<>>) \o FilterSeq(P, Tail(s))

\* array.reduce(F, acc): the accumulator after the elements lo..hi, taken
\* from left to right (the first half, then the second half from there)
RECURSIVE ReduceRange(_, _, _, _, _)
ReduceRange(F(_, _), s, acc, lo, hi) ==
    IF lo > hi THEN acc
    ELSE IF lo = hi THEN F(acc, s[lo])
    ELSE LET mid == (lo + hi) \div 2
         IN  CHOOSE after \in {ReduceRange(F, s, before, mid + 1, hi) :
                                  before \in {ReduceRange(F, s, acc, lo, mid)}} : TRUE
Reduce(F(_, _), s, acc) == ReduceRange(F, s, acc, 1, Len(s))

-----------------------------------------------------------------------------
(* fileAnalysis.js: descriptive statistics *)

calculateMean(numbers) == Div(Reduce(Add, numbers, FromInt(0)), FromInt(Len(numbers)))

\* [...numbers].sort((a, b) => a - b): insertion into the sorted prefix
\* after every element that is not greater (a stable sort)
InsertSorted(x, s) ==
    LET greater == {i \in DOMAIN s : Lt(x, s[i])}
        at == IF greater = {} THEN Len(s) + 1
              ELSE CHOOSE i \in greater : \A j \in greater : i <= j
    IN  SubSeq(s, 1, at - 1) \o <<x>> \o SubSeq(s, at, Len(s))

InsertNext(sorted, x) == InsertSorted(x, sorted)
SortNumbers(numbers) == Reduce(InsertNext, numbers, <<>>)

\* middle is a 0-based index: sorted[middle] is the model's sorted[middle + 1]
calculateMedian(numbers) ==
    LET sorted == SortNumbers(numbers)
        middle == Len(sorted) \div 2
    IN  IF Len(sorted) % 2 = 0
        THEN Div(Add(At(sorted, middle), At(sorted, middle + 1)), FromInt(2))
        ELSE At(sorted, middle + 1)

calculateStandardDeviation(numbers) ==
    LET mean == calculateMean(numbers)
        SquareDiff(num) == Mul(Sub(num, mean), Sub(num, mean))
    IN  MathSqrt(calculateMean(MapSeq(SquareDiff, numbers)))

\* (mutant) halves that share the middle element of an odd-length array
calculateQuartilesInclusive(numbers) ==
    LET sorted == SortNumbers(numbers)
        n == Len(sorted)
    IN  [Q1 |-> calculateMedian(SubSeq(sorted, 1, (n + 1) \div 2)),
         Q2 |-> calculateMedian(sorted),
         Q3 |-> calculateMedian(SubSeq(sorted, (n \div 2) + 1, n))]

\* slice(0, floor(n/2)) and slice(ceil(n/2))
calculateQuartiles(numbers) ==
    LET sorted == SortNumbers(numbers)
        n == Len(sorted)
    IN  [Q1 |-> calculateMedian(SubSeq(sorted, 1, n \div 2)),
         Q2 |-> calculateMedian(sorted),
         Q3 |-> calculateMedian(SubSeq(sorted, ((n + 1) \div 2) + 1, n))]

detectOutliers(numbers) ==
    LET quartiles == calculateQuartiles(numbers)
        iqr == Sub(quartiles.Q3, quartiles.Q1)
        lowerBound == Sub(quartiles.Q1, Mul(<<3, 2>>, iqr))
        upperBound == Add(quartiles.Q3, Mul(<<3, 2>>, iqr))
        IsOutlier(num) == Lt(num, lowerBound) \/ Gt(num, upperBound)
    IN  FilterSeq(IsOutlier, numbers)

\* Math.min(...numbers), Math.max(...numbers)
MathMinAll(numbers) == Reduce(MathMin, numbers, PosInf)
MathMaxAll(numbers) == Reduce(MathMax, numbers, NegInf)

-----------------------------------------------------------------------------
(* A plain JavaScript object {} used as a map: the sequence of its own       *)
(* entries [k, v] in insertion order.  Keys are strings.                     *)

\* a canonical array index ("0", "7", "12"; not "", "-1", "05")
IsArrayIndex(k) == AllDigits(k) /\ (k[1] # "0" \/ Len(k) = 1)

\* names every object inherits from Object.prototype: obj[k] is truthy for
\* them although the object has no such entry
InheritedKeys ==
    {<<"c", "o", "n", "s", "t", "r", "u", "c", "t", "o", "r">>,
     <<"t", "o", "S", "t", "r", "i", "n", "g">>,
     <<"v", "a", "l", "u", "e", "O", "f">>,
     <<"_", "_", "p", "r", "o", "t", "o", "_", "_">>}

ObjHas(obj, k) == \E i \in DOMAIN obj : obj[i].k = k
ObjGet(obj, k) == obj[CHOOSE i \in DOMAIN obj : obj[i].k = k].v
ObjSet(obj, k, v) ==
    IF ObjHas(obj, k)
    THEN [i \in DOMAIN obj |-> IF obj[i].k = k THEN [k |-> k, v |-> v] ELSE obj[i]]
    ELSE Append(obj, [k |-> k, v |-> v])

\* Object.entries(obj): array-index keys first, in ascending numeric order,
\* then the other keys in insertion order
RECURSIVE InsertIndexEntry(_, _)
InsertIndexEntry(e, s) ==
    IF s = <<>> THEN <<e>>
    ELSE IF ParseNat(e.k) < ParseNat(Head(s).k) THEN <<e>> \o s
    ELSE <<Head(s)>> \o InsertIndexEntry(e, Tail(s))

RECURSIVE SortIndexEntries(_)
SortIndexEntries(s) ==
    IF s = <<>> THEN <<>>
    ELSE InsertIndexEntry(s[Len(s)], SortIndexEntries(SubSeq(s, 1, Len(s) - 1)))

EntryIsIndex(e) == IsArrayIndex(e.k)
EntryIsName(e) == ~IsArrayIndex(e.k)
ObjectEntries(obj) ==
    SortIndexEntries(FilterSeq(EntryIsIndex, obj)) \o FilterSeq(EntryIsName, obj)

EntryKey(e) == e.k
EntryValue(e) == e.v
ObjectKeys(obj) == MapSeq(EntryKey, ObjectEntries(obj))
ObjectValues(obj) == MapSeq(EntryValue, ObjectEntries(obj))

-----------------------------------------------------------------------------
(* fileAnalysis.js: calculateStatistics *)

\* freq[val] = (freq[val] || 0) + 1, over values that are not inherited names
CountValue(freq, val) ==
    LET k == ToString_(val)
    IN  ObjSet(freq, k, IF ObjHas(freq, k) THEN ObjGet(freq, k) + 1 ELSE 1)
calculateFrequencies(values) == Reduce(CountValue, values, <<>>)

\* entries.sort((a, b) => b[1] - a[1]): stable, descending by count
RECURSIVE InsertByCount(_, _)
InsertByCount(e, s) ==
    IF s = <<>> THEN <<e>>
    ELSE IF e.v > Head(s).v THEN <<e>> \o s
    ELSE <<Head(s)>> \o InsertByCount(e, Tail(s))

RECURSIVE SortByCount(_)
SortByCount(s) ==
    IF s = <<>> THEN <<>>
    ELSE InsertByCount(s[Len(s)], SortByCount(SubSeq(s, 1, Len(s) - 1)))

MostCommonLimit == 5

\* the statistics of one column (the body of columns.forEach)
ColumnStatistics(columnData, type) ==
    IF type = "number"
    THEN LET numbers == MapSeq(ToNumber, FilterSeq(NonEmpty, columnData))
         IN  [kind |-> "number",
              min |-> MathMinAll(numbers),
              max |-> MathMaxAll(numbers),
              mean |-> calculateMean(numbers),
              median |-> calculateMedian(numbers),
              standardDeviation |-> calculateStandardDeviation(numbers),
              quartiles |-> calculateQuartiles(numbers),
              outliers |-> detectOutliers(numbers)]
    ELSE LET sortedEntries == SortByCount(ObjectEntries(calculateFrequencies(columnData)))
         IN  [kind |-> "string",
              uniqueValues |-> Cardinality({columnData[i] : i \in DOMAIN columnData}),
              mostCommon |-> SubSeq(sortedEntries, 1,
                                    IF Len(sortedEntries) < MostCommonLimit
                                    THEN Len(sortedEntries) ELSE MostCommonLimit)]

\* rows.map(row => row[index]); index is 1-based here
ColumnData(rows, index) ==
    [r \in DOMAIN rows |-> IF index \in DOMAIN rows[r] THEN rows[r][index] ELSE Undef]

\* data[0] is the header row; columns of another type get no entry
RECURSIVE StatisticsFrom(_, _, _, _)
StatisticsFrom(rows, columns, index, stats) ==
    IF index > Len(columns) THEN stats
    ELSE LET column == columns[index]
         IN  StatisticsFrom(rows, columns, index + 1,
                 IF column.type \in {"number", "string"}
                 THEN ObjSet(stats, column.name,
                             ColumnStatistics(ColumnData(rows, index), column.type))
                 ELSE stats)

calculateStatistics(d, columns) == StatisticsFrom(Tail(d), columns, 1, <<>>)

-----------------------------------------------------------------------------
(* Calls of calculateStatistics on a one-column sheet *)

RECURSIVE SeqsUpTo(_, _)
SeqsUpTo(S, n) ==
    IF n = 0 THEN {<<>>}
    ELSE LET shorter == SeqsUpTo(S, n - 1)
         IN  shorter \cup {Append(s, x) : s \in {q \in shorter : Len(q) = n - 1}, x \in S}

StatName == <<"v">>
StatCells == {Num(1), Num(2), Num(3), Num(4), Num(100), Str(<<>>)}
StatTypes == {"number", "string", "date"}

InitStats ==
    /\ \E cells \in SeqsUpTo(StatCells, MaxStatRows) :
         data = <<<<Str(StatName)>>>> \o [i \in DOMAIN cells |-> <<cells[i]>>]
    /\ \E type \in StatTypes :
         request = [op |-> "calculateStatistics",
                    columns |-> <<[name |-> StatName, type |-> type]>>]
    /\ pc = "ready"
    /\ result = <<>>

CalculateStatistics ==
    /\ pc = "ready"
    /\ request.op = "calculateStatistics"
    /\ result' = calculateStatistics(data, request.columns)
    /\ pc' = "returned"
    /\ UNCHANGED <<data, request>>

NextStats == CalculateStatistics

SpecStats == InitStats /\ [][NextStats]_vars

-----------------------------------------------------------------------------
(* validators.js: isNumber, isDate *)

\* value.replace(/,/g, ''), value.replace(/\$/g, ''): every occurrence goes
RemoveAll(s, ch) == SelectSeq(s, LAMBDA c : c # ch)
\* value.replace(/%$/, ''): one "%" at the very end of the string
RemoveTrailingPercent(s) ==
    IF s # <<>> /\ s[Len(s)] = "%" THEN SubSeq(s, 1, Len(s) - 1) ELSE s

CleanValue(s) == Trim(RemoveTrailingPercent(RemoveAll(RemoveAll(s, ","), "$")))

\* !isNaN(cleanValue) && isFinite(cleanValue) coerce the string with Number
isNumber(value) ==
    IF value.t = "num" THEN TRUE
    ELSE IF value.t # "str" THEN FALSE
    ELSE LET n == StringToNumber(CleanValue(value.s))
         IN  ~IsNaN(n) /\ IsFinite(n)

\* the string with every digit replaced by "d"
Shape(s) == [i \in DOMAIN s |-> IF IsDigit(s[i]) THEN "d" ELSE s[i]]

ShapeYearFirst(sep) == <<"d", "d", "d", "d", sep, "d", "d", sep, "d", "d">>
ShapeYearLast(sep) == <<"d", "d", sep, "d", "d", sep, "d", "d", "d", "d">>
IsoShape == ShapeYearFirst("-")
datePatterns ==
    {IsoShape, ShapeYearLast("/"), ShapeYearLast("-"),
     ShapeYearFirst("/"), ShapeYearLast("."), ShapeYearFirst(".")}

MsPerDay == 86400000

IsLeapYear(y) == (y % 4 = 0 /\ y % 100 # 0) \/ y % 400 = 0
DaysInMonth(y, m) ==
    IF m = 2 THEN (IF IsLeapYear(y) THEN 29 ELSE 28)
    ELSE IF m \in {4, 6, 9, 11} THEN 30 ELSE 31

\* days from 1970-01-01 to the day y-m-d of the Gregorian calendar
DaysFromCivil(y, m, d) ==
    LET yy == IF m <= 2 THEN y - 1 ELSE y
        era == yy \div 400
        yoe == yy - era * 400
        mp == (m + 9) % 12
        doy == (153 * mp + 2) \div 5 + d - 1
        doe == yoe * 365 + yoe \div 4 - yoe \div 100 + doy
    IN  era * 146097 + doe - 719468

TimeOfDay(y, m, d) ==
    IF m \in 1..12 /\ d \in 1..DaysInMonth(y, m)
    THEN FromInt(DaysFromCivil(y, m, d))
    ELSE NaN

\* The time value of new Date(string), counted in days (milliseconds divided
\* by MsPerDay) to keep the numbers small.  The language fixes it for YYYY-MM-DD
\* only (midnight UTC of that day, NaN for a day that does not exist).  What
\* any other string gives is left to the engine: with legacyDates the engine
\* reads the five other shapes as month, day, year (or year, month, day) of
\* a day, without it it rejects them; a string of no shape is rejected.
DateParse(s, legacyDates) ==
    IF Shape(s) = IsoShape
    THEN TimeOfDay(ParseNat(SubSeq(s, 1, 4)), ParseNat(SubSeq(s, 6, 7)),
                   ParseNat(SubSeq(s, 9, 10)))
    ELSE IF Shape(s) \in datePatterns /\ legacyDates
    THEN IF IsDigit(s[3])
         THEN TimeOfDay(ParseNat(SubSeq(s, 1, 4)), ParseNat(SubSeq(s, 6, 7)),
                        ParseNat(SubSeq(s, 9, 10)))
         ELSE TimeOfDay(ParseNat(SubSeq(s, 7, 10)), ParseNat(SubSeq(s, 1, 2)),
                        ParseNat(SubSeq(s, 4, 5)))
    ELSE NaN

\* no cell of a sheet is a Date object
isDate(value, legacyDates) ==
    IF value.t # "str" THEN FALSE
    ELSE IF Shape(value.s) \notin datePatterns THEN FALSE
    ELSE ~IsNaN(DateParse(value.s, legacyDates))

-----------------------------------------------------------------------------
(* fileAnalysis.js: detectDataType, analyzeColumn, analyzeFileData *)

SampleLimit == 100
TypeThreshold == 80

\* array.slice(0, n)
Take(s, n) == SubSeq(s, 1, IF Len(s) < n THEN Len(s) ELSE n)

Percentage(count, total) == Mul(Div(FromInt(count), FromInt(total)), FromInt(100))

\* detectDataType over every non-empty value of the column
detectDataTypeWhole(d, legacyDates) ==
    LET sample == SelectSeq(d, NonEmpty)
        numberCount == Len(SelectSeq(sample, isNumber))
        dateCount == Len(SelectSeq(sample, LAMBDA val : isDate(val, legacyDates)))
        numberPercentage == Percentage(numberCount, Len(sample))
        datePercentage == Percentage(dateCount, Len(sample))
    IN  IF Len(sample) = 0 THEN "string"
        ELSE IF Le(FromInt(TypeThreshold), numberPercentage) THEN "number"
        ELSE IF Le(FromInt(TypeThreshold), datePercentage) THEN "date"
        ELSE "string"

\* detectDataType with thresholds that must be exceeded
detectDataTypeAbove(d, legacyDates) ==
    LET sample == Take(SelectSeq(d, NonEmpty), SampleLimit)
        numberCount == Len(SelectSeq(sample, isNumber))
        dateCount == Len(SelectSeq(sample, LAMBDA val : isDate(val, legacyDates)))
        numberPercentage == Percentage(numberCount, Len(sample))
        datePercentage == Percentage(dateCount, Len(sample))
    IN  IF Len(sample) = 0 THEN "string"
        ELSE IF Gt(numberPercentage, FromInt(TypeThreshold)) THEN "number"
        ELSE IF Gt(datePercentage, FromInt(TypeThreshold)) THEN "date"
        ELSE "string"

detectDataType(d, legacyDates) ==
    LET sample == Take(SelectSeq(d, NonEmpty), SampleLimit)
        numberCount == Len(SelectSeq(sample, isNumber))
        dateCount == Len(SelectSeq(sample, LAMBDA val : isDate(val, legacyDates)))
        numberPercentage == Percentage(numberCount, Len(sample))
        datePercentage == Percentage(dateCount, Len(sample))
    IN  IF Len(sample) = 0 THEN "string"
        ELSE IF Le(FromInt(TypeThreshold), numberPercentage) THEN "number"
        ELSE IF Le(FromInt(TypeThreshold), datePercentage) THEN "date"
        ELSE "string"

\* the value of a statistic: null, a number, or a Date with a time value in
\* days
JsNull == [kind |-> "null", value |-> NaN]
NumberValue(x) == [kind |-> "number", value |-> x]
DateValue(time) == [kind |-> "date", value |-> time]

\* String(number) for the numbers of a sheet: integers and decimal
\* fractions (their denominator divides a power of ten)
FractionDigits(den) == CHOOSE k \in 1..18 :
    /\ Pow10(k) % den = 0
    /\ \A j \in 1..(k - 1) : Pow10(j) % den # 0
RECURSIVE PadZeros(_, _)
PadZeros(s, width) == IF Len(s) >= width THEN s ELSE PadZeros(<<"0">> \o s, width)
NumberToString(x) ==
    IF IsNaN(x) THEN <<"N", "a", "N">>
    ELSE IF x = PosInf THEN <<"I", "n", "f", "i", "n", "i", "t", "y">>
    ELSE IF x = NegInf THEN <<"-", "I", "n", "f", "i", "n", "i", "t", "y">>
    ELSE IF x[2] = 1 THEN IntToString(x[1])
    ELSE LET k == FractionDigits(x[2])
             scaled == (Abs(x[1]) * Pow10(k)) \div x[2]
         IN  (IF x[1] < 0 THEN <<"-">> ELSE <<>>)
             \o NatToString(scaled \div Pow10(k)) \o <<".">>
             \o PadZeros(NatToString(scaled % Pow10(k)), k)

\* freq[val] = (freq[val] || 0) + 1 over numbers
CountNumber(freq, num) ==
    LET k == NumberToString(num)
    IN  ObjSet(freq, k, IF ObjHas(freq, k) THEN ObjGet(freq, k) + 1 ELSE 1)

\* one step of the loop over Object.entries(frequencies)
ModeStep(best, entry) ==
    IF entry.v > best.maxFreq
    THEN [maxFreq |-> entry.v, mode |-> NumberValue(StringToNumber(entry.k))]
    ELSE best
calculateMode(numbers) ==
    Reduce(ModeStep, ObjectEntries(Reduce(CountNumber, numbers, <<>>)),
           [maxFreq |-> 0, mode |-> JsNull]).mode

\* What calculateMedian can return.  (a, b) => a - b is NaN, taken as 0, as
\* soon as one side is NaN; with two different numbers next to a NaN it is no
\* consistent ordering and the language leaves the order of the sorted array
\* to the engine: every arrangement of the numbers is possible.
InconsistentOrder(numbers) ==
    /\ \E i \in DOMAIN numbers : IsNaN(numbers[i])
    /\ \E i, j \in DOMAIN numbers :
         ~IsNaN(numbers[i]) /\ ~IsNaN(numbers[j]) /\ numbers[i] # numbers[j]
MedianOutcomes(numbers) ==
    IF ~InconsistentOrder(numbers) THEN {calculateMedian(numbers)}
    ELSE IF Len(numbers) % 2 = 0
    THEN {Div(Add(numbers[p[1]], numbers[p[2]]), FromInt(2)) :
             p \in {q \in (DOMAIN numbers) \X (DOMAIN numbers) : q[1] # q[2]}}
    ELSE {numbers[i] : i \in DOMAIN numbers}

\* new Date(val) as a time value in days; a number is a count of milliseconds
TimeOf(val, legacyDates) ==
    IF val.t = "str" THEN DateParse(val.s, legacyDates)
    ELSE Div(ToNumber(val), FromInt(MsPerDay))

\* the size of a Set of values told apart by their text
SetSizeByText(values) == Cardinality({ToString_(values[i]) : i \in DOMAIN values})

\* new Set(values).size: a number and a string are never the same value
SetSize(values) == Cardinality({values[i] : i \in DOMAIN values})

\* the analyses analyzeColumn can return for a column
analyzeColumn(header, d, legacyDates) ==
    LET type == detectDataType(d, legacyDates)
        nonNullValues == SelectSeq(d, NonEmpty)
        nullCount == Len(d) - Len(nonNullValues)
        uniqueCount == SetSize(nonNullValues)
        numbers == MapSeq(ToNumber, nonNullValues)
        dates == [i \in DOMAIN nonNullValues |-> TimeOf(nonNullValues[i], legacyDates)]
        statistics(min, max, mean, median, mode) ==
            [nullCount |-> nullCount, uniqueCount |-> uniqueCount,
             min |-> min, max |-> max, mean |-> mean, median |-> median,
             mode |-> mode]
    IN  IF type = "number"
        THEN {[name |-> header, type |-> type,
               statistics |-> statistics(NumberValue(MathMinAll(numbers)),
                                         NumberValue(MathMaxAll(numbers)),
                                         NumberValue(calculateMean(numbers)),
                                         NumberValue(median),
                                         calculateMode(numbers))] :
                 median \in MedianOutcomes(numbers)}
        ELSE IF type = "date"
        THEN {[name |-> header, type |-> type,
               statistics |-> statistics(DateValue(MathMinAll(dates)),
                                         DateValue(MathMaxAll(dates)),
                                         JsNull, JsNull, JsNull)]}
        ELSE {[name |-> header, type |-> type,
               statistics |-> statistics(JsNull, JsNull, JsNull, JsNull, JsNull)]}

\* row[i] of a row that may be shorter than the header
CellAt(row, i) == IF i \in DOMAIN row THEN row[i] ELSE Undef
ColumnCells(rows, i) == [r \in DOMAIN rows |-> CellAt(rows[r], i)]

\* Math.round(x): the nearest integer, halves upwards
MathRound(x) ==
    IF ~IsFinite(x) THEN x
    ELSE LET twice == 2 * x[1] + x[2]
             den == 2 * x[2]
         IN  FromInt(IF twice >= 0 THEN twice \div den
                     ELSE -((-twice + den - 1) \div den))

QualityPenaltyFloor == 5
QualityPenaltyCap == 20
FullQuality == 100

\* the loop over the columns from column i on: the analyses pushed and the
\* quality score left
RECURSIVE AnalyzeColumns(_, _, _, _, _)
AnalyzeColumns(headers, rows, i, qualityScore, legacyDates) ==
    IF i > Len(headers) THEN {[columns |-> <<>>, qualityScore |-> qualityScore]}
    ELSE UNION {
           LET nullPercentage ==
                   Mul(Div(FromInt(columnAnalysis.statistics.nullCount),
                           FromInt(Len(rows))), FromInt(100))
               score ==
                   IF Gt(nullPercentage, FromInt(QualityPenaltyFloor))
                   THEN Sub(qualityScore,
                            MathMin(FromInt(QualityPenaltyCap), nullPercentage))
                   ELSE qualityScore
           IN  {[columns |-> <<columnAnalysis>> \o rest.columns,
                 qualityScore |-> rest.qualityScore] :
                    rest \in AnalyzeColumns(headers, rows, i + 1, score, legacyDates)} :
           columnAnalysis \in analyzeColumn(headers[i], ColumnCells(rows, i),
                                            legacyDates)}

\* the results analyzeFileData can return for a sheet that is not empty
analyzeFileData(d, legacyDates) ==
    LET headers == d[1]
        rows == Tail(d)
    IN  {[columns |-> done.columns,
          rowCount |-> Len(rows),
          columnCount |-> Len(headers),
          qualityScore |-> MathMax(FromInt(0), MathRound(done.qualityScore))] :
            done \in AnalyzeColumns(headers, rows, 1, FromInt(FullQuality), legacyDates)}

NoDataMessage == <<"No data provided for analysis">>

AnalyzeFileData ==
    /\ pc = "ready"
    /\ request.op = "analyzeFileData"
    /\ IF Len(data) = 0
       THEN /\ pc' = "threw"
            /\ result' = [error |-> "Error", message |-> NoDataMessage]
       ELSE /\ pc' = "returned"
            /\ result' \in analyzeFileData(data, request.legacyDates)
    /\ UNCHANGED <<data, request>>

NextAnalyze == AnalyzeFileData

-----------------------------------------------------------------------------
(* Calls of analyzeFileData on a sheet with one column of text cells *)

InferName == <<"v">>
TextOne == <<"1">>
TextTwo == <<"2">>
TextDecimal == <<"3", ".", "5">>
TextNotAvailable == <<"N", "/", "A">>
TextIsoDate == <<"2", "0", "2", "4", "-", "0", "1", "-", "1", "5">>
TextSlashDate == <<"0", "1", "/", "1", "5", "/", "2", "0", "2", "4">>
InferCells ==
    {Str(TextOne), Str(TextDecimal), Str(TextNotAvailable), Str(TextIsoDate),
     Str(TextSlashDate), Str(<<>>)}
ExampleSample == <<Str(TextOne), Str(TextTwo), Str(TextDecimal), Str(TextNotAvailable)>>

OneColumnSheet(name, cells) == <<<<Str(name)>>>> \o [i \in DOMAIN cells |-> <<cells[i]>>]

InitInfer ==
    /\ \E cells \in SeqsUpTo(InferCells, MaxInferRows) \cup {ExampleSample} :
         data = OneColumnSheet(InferName, cells)
    /\ \E legacyDates \in BOOLEAN :
         request = [op |-> "analyzeFileData", legacyDates |-> legacyDates]
    /\ pc = "ready"
    /\ result = <<>>

SpecInfer == InitInfer /\ [][NextAnalyze]_vars

-----------------------------------------------------------------------------
(* Calls of analyzeFileData on a sheet with two long columns: a run of       *)
(* numeric cells, empty cells in between, cells that are not numeric up to   *)
(* the hundredth non-empty value, and a tail after it                        *)

LeftName == <<"l">>
RightName == <<"r">>
Repeat(cell, n) == [i \in 1..n |-> cell]
NumericRuns == {79, 80}
GapLengths == {0, 1}
TailCells == {Str(TextOne), Str(TextNotAvailable), Str(<<>>)}
LongColumn(run, gap, tail) ==
    Repeat(Str(TextOne), run) \o Repeat(Str(<<>>), gap)
        \o Repeat(Str(TextNotAvailable), SampleLimit - run) \o tail
LongColumns ==
    {LongColumn(run, gap, tail) :
        run \in NumericRuns, gap \in GapLengths, tail \in SeqsUpTo(TailCells, MaxSampleTail)}

\* a row holds the cell of the left column, undefined where that column has
\* ended, and the cell of the right column if it has not ended
LongLen(left, right) == IF Len(left) < Len(right) THEN Len(right) ELSE Len(left)
TwoColumnSheet(left, right) ==
    <<<<Str(LeftName), Str(RightName)>>>>
        \o [i \in 1..LongLen(left, right) |->
               IF i \in DOMAIN right THEN <<CellAt(left, i), right[i]>>
               ELSE <<left[i]>>]

InitSample ==
    /\ \E left \in LongColumns, right \in LongColumns :
         data = TwoColumnSheet(left, right)
    /\ \E legacyDates \in BOOLEAN :
         request = [op |-> "analyzeFileData", legacyDates |-> legacyDates]
    /\ pc = "ready"
    /\ result = <<>>

SpecSample == InitSample /\ [][NextAnalyze]_vars

-----------------------------------------------------------------------------
(* Calls of analyzeFileData on a sheet with one column of mixed cells, or on *)
(* no sheet at all                                                           *)

TextFive == <<"5">>
AnalyzeCells ==
    {Num(5), Str(TextFive), Str(TextNotAvailable), Str(<<>>), Null, Undef}

InitAnalyze ==
    /\ \/ \E cells \in SeqsUpTo(AnalyzeCells, MaxAnalyzeRows) :
              data = OneColumnSheet(InferName, cells)
       \/ data = <<>>
    /\ \E legacyDates \in BOOLEAN :
         request = [op |-> "analyzeFileData", legacyDates |-> legacyDates]
    /\ pc = "ready"
    /\ result = <<>>

SpecAnalyze == InitAnalyze /\ [][NextAnalyze]_vars

-----------------------------------------------------------------------------
(* Calls of calculateStatistics on a sheet with one text column: words,     *)
(* digits kept as text, and one column of six different words               *)

TextA == <<"A">>
TextB == <<"B">>
TextX == <<"x">>
TextCells == {Str(TextA), Str(TextB), Str(TextX), Str(TextOne), Str(TextTwo)}
SixWords ==
    <<Str(TextX), Str(TextA), Str(TextA), Str(TextB), Str(TextNotAvailable),
      Str(<<"C">>), Str(<<"D">>), Str(TextB)>>

InitText ==
    /\ \E cells \in SeqsUpTo(TextCells, MaxTextRows) \cup {SixWords} :
         data = OneColumnSheet(StatName, cells)
    /\ request = [op |-> "calculateStatistics",
                  columns |-> <<[name |-> StatName, type |-> "string"]>>]
    /\ pc = "ready"
    /\ result = <<>>

NextText == CalculateStatistics

SpecText == InitText /\ [][NextText]_vars

-----------------------------------------------------------------------------
(* analysisUtils: calculateCorrelation.  A row is a function from column    *)
(* names to cells; row[c] is undefined for a name it does not have.  The    *)
(* cells of the sheets below are numbers, text that is not numeric, or      *)
(* missing, so that every value that passes !isNaN(val) is a number.        *)

RowGet(row, c) == IF c \in DOMAIN row THEN row[c] ELSE Undef

\* a real number sgn * sqrt(sq); NaN is [sgn |-> 0, sq |-> NaN]
RealOne == [sgn |-> 1, sq |-> FromInt(1)]
RealZero == [sgn |-> 0, sq |-> FromInt(0)]
RealNaN == [sgn |-> 0, sq |-> NaN]

\* numerator / denominator for a denominator that is a square root
DivBySqrt(numerator, denominator) ==
    LET sq == Div(Mul(numerator, numerator), denominator.sq)
    IN  IF IsNaN(sq) THEN RealNaN
        ELSE [sgn |-> Sgn(numerator[1]) * denominator.sgn, sq |-> sq]

\* pearsonCorrelation with a numerator that leaves out the product of the sums
pearsonCorrelationUncentered(x, y) ==
    LET n == FromInt(Len(x))
        sumX == Reduce(Add, x, FromInt(0))
        sumY == Reduce(Add, y, FromInt(0))
        sumXY == Reduce(Add, [i \in DOMAIN x |-> Mul(x[i], At(y, i))], FromInt(0))
        sumX2 == Reduce(Add, [i \in DOMAIN x |-> Mul(x[i], x[i])], FromInt(0))
        sumY2 == Reduce(Add, [i \in DOMAIN y |-> Mul(y[i], y[i])], FromInt(0))
        numerator == Mul(n, sumXY)
        denominator == MathSqrt(Mul(Sub(Mul(n, sumX2), Mul(sumX, sumX)),
                                    Sub(Mul(n, sumY2), Mul(sumY, sumY))))
    IN  IF SurdIsZero(denominator) THEN RealZero ELSE DivBySqrt(numerator, denominator)

pearsonCorrelation(x, y) ==
    LET n == FromInt(Len(x))
        sumX == Reduce(Add, x, FromInt(0))
        sumY == Reduce(Add, y, FromInt(0))
        sumXY == Reduce(Add, [i \in DOMAIN x |-> Mul(x[i], At(y, i))], FromInt(0))
        sumX2 == Reduce(Add, [i \in DOMAIN x |-> Mul(x[i], x[i])], FromInt(0))
        sumY2 == Reduce(Add, [i \in DOMAIN y |-> Mul(y[i], y[i])], FromInt(0))
        numerator == Sub(Mul(n, sumXY), Mul(sumX, sumY))
        denominator == MathSqrt(Mul(Sub(Mul(n, sumX2), Mul(sumX, sumX)),
                                    Sub(Mul(n, sumY2), Mul(sumY, sumY))))
    IN  IF SurdIsZero(denominator) THEN RealZero ELSE DivBySqrt(numerator, denominator)

\* data.map(row => row[column]).filter(val => !isNaN(val))
CellIsNumeric(c) == ~IsNaN(ToNumber(c))
NumericColumn(d, column) ==
    MapSeq(ToNumber, FilterSeq(CellIsNumeric, [r \in DOMAIN d |-> RowGet(d[r], column)]))

\* the inner loop over j, filling correlations[columns[i]]
RECURSIVE CorrelationRow(_, _, _, _, _)
CorrelationRow(d, columns, i, j, row) ==
    IF j > Len(columns) THEN row
    ELSE CorrelationRow(d, columns, i, j + 1,
             ObjSet(row, columns[j],
                    IF i = j THEN RealOne
                    ELSE pearsonCorrelation(NumericColumn(d, columns[i]),
                                            NumericColumn(d, columns[j]))))

\* the outer loop over i; correlations[columns[i]] starts again from {}
RECURSIVE CorrelationsFrom(_, _, _, _)
CorrelationsFrom(d, columns, i, correlations) ==
    IF i > Len(columns) THEN correlations
    ELSE CorrelationsFrom(d, columns, i + 1,
             ObjSet(correlations, columns[i], CorrelationRow(d, columns, i, 1, <<>>)))

calculateCorrelation(d, columns) == CorrelationsFrom(d, columns, 1, <<>>)

-----------------------------------------------------------------------------
(* Calls of calculateCorrelation on a sheet with the columns a and b *)

ColA == <<"a">>
ColB == <<"b">>
CorrCells == {Num(0), Num(1), Num(2), Undef}
CorrRows == {(ColA :> ca) @@ (ColB :> cb) : ca \in CorrCells, cb \in CorrCells}
CorrColumnLists == {<<ColA, ColB>>, <<ColB, ColA>>, <<ColA, ColA>>}

\* the table with a = 1..5 and b = 2 * a
LinearExample == [r \in 1..5 |-> (ColA :> Num(r)) @@ (ColB :> Num(2 * r))]

InitCorr ==
    /\ data \in SeqsUpTo(CorrRows, MaxCorrRows) \cup {LinearExample}
    /\ \E columns \in CorrColumnLists :
         request = [op |-> "calculateCorrelation", columns |-> columns]
    /\ pc = "ready"
    /\ result = <<>>

CalculateCorrelation ==
    /\ pc = "ready"
    /\ request.op = "calculateCorrelation"
    /\ result' = calculateCorrelation(data, request.columns)
    /\ pc' = "returned"
    /\ UNCHANGED <<data, request>>

NextCorr == CalculateCorrelation

SpecCorr == InitCorr /\ [][NextCorr]_vars

-----------------------------------------------------------------------------
(* analysisUtils: performRegression.  A matrix is a sequence of rows, each  *)
(* a sequence of numbers; an entry outside a row is undefined (NaN in       *)
(* arithmetic).                                                             *)

\* matrix[0].map((_, i) => matrix.map(row => row[i]))
transpose(matrix) ==
    [i \in DOMAIN matrix[1] |-> [r \in DOMAIN matrix |-> At(matrix[r], i)]]

\* row.reduce((sum, val, i) => sum + val * col[i], 0)
DotProduct(row, col) ==
    Reduce(Add, [i \in DOMAIN row |-> Mul(row[i], At(col, i))], FromInt(0))

matrixMultiply(a, b) ==
    LET bT == transpose(b)
    IN  [r \in DOMAIN a |-> [c \in DOMAIN bT |-> DotProduct(a[r], bT[c])]]

\* (mutant) the adjugate without the sign change of the off-diagonal entries
inverseMatrixNoSign(matrix) ==
    LET det == Sub(Mul(matrix[1][1], matrix[2][2]), Mul(matrix[1][2], matrix[2][1]))
    IN  << <<Div(matrix[2][2], det), Div(matrix[1][2], det)>>,
           <<Div(matrix[2][1], det), Div(matrix[1][1], det)>> >>

\* the closed form for a 2x2 matrix, applied to the upper left 2x2 block of
\* whatever matrix it is given
inverseMatrix(matrix) ==
    LET det == Sub(Mul(matrix[1][1], matrix[2][2]), Mul(matrix[1][2], matrix[2][1]))
    IN  << <<Div(matrix[2][2], det), Div(Neg(matrix[1][2]), det)>>,
           <<Div(Neg(matrix[2][1]), det), Div(matrix[1][1], det)>> >>

Square(a) == Mul(a, a)

\* X has at least one row (X[0].length is read first)
multipleLinearRegression(X, y) ==
    LET n == Len(X)
        p == Len(X[1])
        X_aug == [r \in DOMAIN X |-> <<FromInt(1)>> \o X[r]]
        X_t == transpose(X_aug)
        X_t_X == matrixMultiply(X_t, X_aug)
        X_t_X_inv == inverseMatrix(X_t_X)
        X_t_y == matrixMultiply(X_t, [r \in DOMAIN y |-> <<y[r]>>])
        product == matrixMultiply(X_t_X_inv, X_t_y)
        coefficients == [r \in DOMAIN product |-> product[r][1]]
        predictions == [r \in DOMAIN X_aug |-> DotProduct(X_aug[r], coefficients)]
        yMean == Div(Reduce(Add, y, FromInt(0)), FromInt(n))
        totalSS == Reduce(Add, [r \in DOMAIN y |-> Square(Sub(y[r], yMean))], FromInt(0))
        residualSS ==
            Reduce(Add, [r \in DOMAIN y |-> Square(Sub(y[r], At(predictions, r)))],
                   FromInt(0))
        rSquared == Sub(FromInt(1), Div(residualSS, totalSS))
        adjustedRSquared ==
            Sub(FromInt(1),
                Div(Mul(Sub(FromInt(1), rSquared), FromInt(n - 1)), FromInt(n - p - 1)))
    IN  [coefficients |-> Tail(coefficients),
         intercept |-> coefficients[1],
         rSquared |-> rSquared,
         adjustedRSquared |-> adjustedRSquared,
         predictions |-> predictions]

\* X and y are the cells as they are; the sheets below hold numbers only
performRegression(d, dependentVar, independentVars) ==
    LET X == [r \in DOMAIN d |->
                 [c \in DOMAIN independentVars |->
                     ToNumber(RowGet(d[r], independentVars[c]))]]
        y == [r \in DOMAIN d |-> ToNumber(RowGet(d[r], dependentVar))]
    IN  multipleLinearRegression(X, y)

-----------------------------------------------------------------------------
(* Calls of performRegression on a sheet with the columns x and y *)

ColX == <<"x">>
ColY == <<"y">>
RegXValues == 0 .. 3
\* a row lies on the line y = 2x + 3, or is one of two rows off it
RegRows ==
    {(ColX :> Num(x)) @@ (ColY :> Num(2 * x + 3)) : x \in RegXValues} \cup
    {(ColX :> Num(x)) @@ (ColY :> Num(0)) : x \in {0, 1}}
RegIndependentLists == {<<ColX>>, <<ColX, ColY>>}

InitRegr ==
    /\ data \in SeqsUpTo(RegRows, MaxRegRows)
    /\ \E independentVars \in RegIndependentLists :
         request = [op |-> "performRegression",
                    dependentVar |-> ColY,
                    independentVars |-> independentVars]
    /\ pc = "ready"
    /\ result = <<>>

\* with no rows X[0] is undefined and X[0].length throws a TypeError
PerformRegression ==
    /\ pc = "ready"
    /\ request.op = "performRegression"
    /\ IF data = <<>>
       THEN /\ pc' = "threw"
            /\ result' = [error |-> "TypeError"]
       ELSE /\ pc' = "returned"
            /\ result' = performRegression(data, request.dependentVar,
                                           request.independentVars)
    /\ UNCHANGED <<data, request>>

NextRegr == PerformRegression

SpecRegr == InitRegr /\ [][NextRegr]_vars

-----------------------------------------------------------------------------
(* analysisUtils: generateChart *)

\* the characters of the model's strings in ascending order of code unit
Alphabet ==
    <<" ", "-", "0", "1", "2", "3", "4", "5", "6", "7", "8", "9",
      "A", "B", "C", "D", "E", "F", "G", "H", "I", "J", "K", "L", "M",
      "N", "O", "P", "Q", "R", "S", "T", "U", "V", "W", "X", "Y", "Z", "_",
      "a", "b", "c", "d", "e", "f", "g", "h", "i", "j", "k", "l", "m",
      "n", "o", "p", "q", "r", "s", "t", "u", "v", "w", "x", "y", "z">>
CharRank(c) == CHOOSE i \in DOMAIN Alphabet : Alphabet[i] = c

\* a < b on strings
RECURSIVE StrLt(_, _)
StrLt(a, b) ==
    IF b = <<>> THEN FALSE
    ELSE IF a = <<>> THEN TRUE
    ELSE IF Head(a) = Head(b) THEN StrLt(Tail(a), Tail(b))
    ELSE CharRank(Head(a)) < CharRank(Head(b))

\* a > b and a < b on values: strings compare as strings, anything else as
\* numbers
ValueGt(a, b) ==
    IF a.t = "str" /\ b.t = "str" THEN StrLt(b.s, a.s) ELSE Gt(ToNumber(a), ToNumber(b))
ValueLt(a, b) ==
    IF a.t = "str" /\ b.t = "str" THEN StrLt(a.s, b.s) ELSE Lt(ToNumber(a), ToNumber(b))

\* s.includes(t)
Includes(s, t) ==
    \E i \in 0 .. Len(s) : i + Len(t) <= Len(s) /\ SubSeq(s, i + 1, i + Len(t)) = t

\* the switch on filter.operator
FilterMatches(row, filter) ==
    LET value == RowGet(row, filter.column)
    IN  CASE filter.operator = "equals" -> value = filter.value
          [] filter.operator = "not_equals" -> value # filter.value
          [] filter.operator = "greater_than" -> ValueGt(value, filter.value)
          [] filter.operator = "less_than" -> ValueLt(value, filter.value)
          [] filter.operator = "contains" ->
                Includes(ToString_(value), ToString_(filter.value))
          [] filter.operator = "not_contains" ->
                ~Includes(ToString_(value), ToString_(filter.value))
          [] OTHER -> TRUE

\* (mutant) filters.some(...)
RECURSIVE SomeFilter(_, _)
SomeFilter(row, filters) ==
    IF filters = <<>> THEN FALSE
    ELSE FilterMatches(row, Head(filters)) \/ SomeFilter(row, Tail(filters))

\* filters.every(...)
RECURSIVE EveryFilter(_, _)
EveryFilter(row, filters) ==
    IF filters = <<>> THEN TRUE
    ELSE FilterMatches(row, Head(filters)) /\ EveryFilter(row, Tail(filters))

applyFilters(d, filters) ==
    IF Len(filters) = 0 THEN d
    ELSE LET Passes(row) == EveryFilter(row, filters)
         IN  FilterSeq(Passes, d)

\* Number(cell) without the fallback || 0
NumberOrNaN(c) == ToNumber(c)

\* Number(cell) || 0
NumberOrZero(c) ==
    LET v == ToNumber(c) IN IF IsNaN(v) THEN FromInt(0) ELSE v

\* the body of data.forEach in groupData.  grouped[key] is truthy for a name
\* inherited from Object.prototype: no entry is created, the sums land on the
\* inherited object and grouped keeps no trace of the row.
AccumulateRow(groupBy, valueColumn, grouped, row) ==
    LET key == ToString_(RowGet(row, groupBy))
        value == NumberOrZero(RowGet(row, valueColumn))
        stats == IF ObjHas(grouped, key) THEN ObjGet(grouped, key)
                 ELSE [sum |-> FromInt(0), count |-> 0, min |-> value, max |-> value]
    IN  IF ~ObjHas(grouped, key) /\ key \in InheritedKeys THEN grouped
        ELSE ObjSet(grouped, key,
                    [sum |-> Add(stats.sum, value),
                     count |-> stats.count + 1,
                     min |-> MathMin(stats.min, value),
                     max |-> MathMax(stats.max, value)])

RECURSIVE AccumulateRows(_, _, _, _)
AccumulateRows(d, groupBy, valueColumn, grouped) ==
    IF d = <<>> THEN grouped
    ELSE AccumulateRows(Tail(d), groupBy, valueColumn,
                        AccumulateRow(groupBy, valueColumn, grouped, Head(d)))

\* (mutant) the average taken as the sum
AggregateNoAverage(stats, aggregation) ==
    CASE aggregation = "count" -> FromInt(stats.count)
      [] aggregation = "min" -> stats.min
      [] aggregation = "max" -> stats.max
      [] OTHER -> stats.sum

\* the switch on aggregation
Aggregate(stats, aggregation) ==
    CASE aggregation = "sum" -> stats.sum
      [] aggregation = "average" -> Div(stats.sum, FromInt(stats.count))
      [] aggregation = "count" -> FromInt(stats.count)
      [] aggregation = "min" -> stats.min
      [] aggregation = "max" -> stats.max
      [] OTHER -> stats.sum

\* Object.entries(grouped).reduce(...) into a new object
RECURSIVE AggregateEntries(_, _, _)
AggregateEntries(entries, aggregation, res) ==
    IF entries = <<>> THEN res
    ELSE AggregateEntries(Tail(entries), aggregation,
                          ObjSet(res, Head(entries).k,
                                 Aggregate(Head(entries).v, aggregation)))

groupData(d, groupBy, valueColumn, aggregation) ==
    AggregateEntries(ObjectEntries(AccumulateRows(d, groupBy, valueColumn, <<>>)),
                     aggregation, <<>>)

Versus == <<" ", "v", "s", " ">>

generate2DChart(d, xAxis, yAxis, aggregation) ==
    LET grouped == groupData(d, xAxis.column, yAxis.column, aggregation)
    IN  [labels |-> ObjectKeys(grouped),
         datasets |-> <<[label |-> yAxis.label, data |-> ObjectValues(grouped)]>>]

generatePieChart(d, labelColumn, valueColumn) ==
    LET grouped == groupData(d, labelColumn, valueColumn, "sum")
    IN  [labels |-> ObjectKeys(grouped),
         datasets |-> <<[data |-> ObjectValues(grouped)]>>]

generateScatterChart(d, xAxis, yAxis) ==
    [datasets |->
        <<[label |-> xAxis.label \o Versus \o yAxis.label,
           data |-> [r \in DOMAIN d |->
                        [x |-> RowGet(d[r], xAxis.column),
                         y |-> RowGet(d[r], yAxis.column)]]]>>]

generate3DChart(d, xAxis, yAxis, zAxis, type) ==
    [datasets |->
        <<[label |-> xAxis.label \o Versus \o yAxis.label \o Versus \o zAxis.label,
           data |-> [r \in DOMAIN d |->
                        [x |-> RowGet(d[r], xAxis.column),
                         y |-> RowGet(d[r], yAxis.column),
                         z |-> RowGet(d[r], zAxis.column)]]]>>]

ChartTypes2D == {"bar", "line", "area"}
ChartTypes3D == {"3d-bar", "3d-scatter", "3d-surface"}
SupportedChartTypes == ChartTypes2D \cup {"pie", "scatter"} \cup ChartTypes3D

\* generateChart with a pie chart that follows the aggregation kind
generateChartPieAggregated(d, config) ==
    LET filteredData == applyFilters(d, config.filters)
    IN  CASE config.type \in ChartTypes2D ->
                generate2DChart(filteredData, config.xAxis, config.yAxis,
                                config.aggregation)
          [] config.type = "pie" ->
                [labels |-> generate2DChart(filteredData, config.xAxis, config.yAxis,
                                            config.aggregation).labels,
                 datasets |->
                    <<[data |-> generate2DChart(filteredData, config.xAxis, config.yAxis,
                                                config.aggregation).datasets[1].data]>>]
          [] config.type = "scatter" ->
                generateScatterChart(filteredData, config.xAxis, config.yAxis)
          [] config.type \in ChartTypes3D ->
                generate3DChart(filteredData, config.xAxis, config.yAxis, config.zAxis,
                                config.type)

\* the value generateChart returns for a supported type
generateChart(d, config) ==
    LET filteredData == applyFilters(d, config.filters)
    IN  CASE config.type \in ChartTypes2D ->
                generate2DChart(filteredData, config.xAxis, config.yAxis,
                                config.aggregation)
          [] config.type = "pie" ->
                generatePieChart(filteredData, config.xAxis.column, config.yAxis.column)
          [] config.type = "scatter" ->
                generateScatterChart(filteredData, config.xAxis, config.yAxis)
          [] config.type \in ChartTypes3D ->
                generate3DChart(filteredData, config.xAxis, config.yAxis, config.zAxis,
                                config.type)

\* generateChart with a default case that returns a chart without series
GenerateChartEmptyDefault ==
    /\ pc = "ready"
    /\ request.op = "generateChart"
    /\ pc' = "returned"
    /\ result' = IF request.config.type \in SupportedChartTypes
                 THEN generateChart(data, request.config)
                 ELSE [labels |-> <<>>, datasets |-> <<>>]
    /\ UNCHANGED <<data, request>>

\* the filters are applied first; an unsupported type throws
\* Error(`Unsupported chart type: ${type}`)
GenerateChart ==
    /\ pc = "ready"
    /\ request.op = "generateChart"
    /\ IF request.config.type \in SupportedChartTypes
       THEN /\ pc' = "returned"
            /\ result' = generateChart(data, request.config)
       ELSE /\ pc' = "threw"
            /\ result' = [error |-> "Unsupported chart type", type |-> request.config.type]
    /\ UNCHANGED <<data, request>>

-----------------------------------------------------------------------------
(* Calls of generateChart without filters, on a sheet with the columns cat  *)
(* and v                                                                    *)

ColCat == <<"c", "a", "t">>
ColV == <<"v">>
KeyA == Str(<<"A">>)
KeyB == Str(<<"B">>)
KeyConstructor == Str(<<"c", "o", "n", "s", "t", "r", "u", "c", "t", "o", "r">>)
NotNumeric == Str(<<"x">>)

ChartRow(key, value) == (ColCat :> key) @@ (ColV :> value)
ChartRows ==
    {ChartRow(KeyA, Num(10)), ChartRow(KeyA, Num(20)), ChartRow(KeyA, Num(5)),
     ChartRow(KeyB, Num(5)), ChartRow(KeyB, NotNumeric),
     ChartRow(KeyConstructor, Num(10)),
     ChartRow(Undef, Num(20)), ChartRow(Undef, Num(5))}

\* the chart types and aggregation kinds asked for; "radar" and "median" are
\* values the switches do not know
ChartRequests ==
    ({"bar"} \X {"sum", "average", "count", "min", "max", "median"})
    \cup ({"line", "area", "pie"} \X {"average", "count"})
    \cup ({"scatter", "3d-scatter", "3d-bar", "3d-surface", "radar"} \X {"sum"})

Axis(column) == [column |-> column, label |-> column]

\* no filters, or one filter with an operator the switch does not know
UnknownOperatorFilter == [column |-> ColV, operator |-> "between", value |-> Num(1)]
ChartFilterLists == {<<>>, <<UnknownOperatorFilter>>}

InitChart ==
    /\ data \in SeqsUpTo(ChartRows, MaxChartRows)
    /\ \E req \in ChartRequests, filters \in ChartFilterLists :
         request = [op |-> "generateChart",
                    config |-> [type |-> req[1],
                                xAxis |-> Axis(ColCat),
                                yAxis |-> Axis(ColV),
                                zAxis |-> Axis(ColV),
                                aggregation |-> req[2],
                                filters |-> filters]]
    /\ pc = "ready"
    /\ result = <<>>

NextChart == GenerateChart

SpecChart == InitChart /\ [][NextChart]_vars

-----------------------------------------------------------------------------
(* Calls of generateChart with filters, on a sheet with the columns status  *)
(* and v (a row may lack v)                                                 *)

ColStatus == <<"s", "t", "a", "t", "u", "s">>
StatusOk == Str(<<"o", "k">>)
StatusFail == Str(<<"f", "a", "i", "l">>)

FilterRows ==
    {(ColStatus :> StatusOk) @@ (ColV :> Num(1)),
     (ColStatus :> StatusOk) @@ (ColV :> Num(2)),
     (ColStatus :> StatusFail) @@ (ColV :> Num(1)),
     (ColStatus :> StatusOk),
     (ColStatus :> StatusFail)}

FilterSpec(column, operator, value) ==
    [column |-> column, operator |-> operator, value |-> value]
\* one filter for each operator, and one with an operator the switch does
\* not know
FilterSpecs ==
    {FilterSpec(ColStatus, "equals", StatusOk),
     FilterSpec(ColStatus, "not_equals", StatusOk),
     FilterSpec(ColStatus, "contains", Str(<<"a", "i">>)),
     FilterSpec(ColStatus, "not_contains", Str(<<"k">>)),
     FilterSpec(ColV, "greater_than", Num(1)),
     FilterSpec(ColV, "less_than", Num(2)),
     FilterSpec(ColV, "between", Num(1))}

InitFilter ==
    /\ data \in SeqsUpTo(FilterRows, MaxFilterRows)
    /\ \E type \in {"scatter", "bar"}, filters \in SeqsUpTo(FilterSpecs, MaxFilters) :
         request = [op |-> "generateChart",
                    config |-> [type |-> type,
                                xAxis |-> Axis(ColStatus),
                                yAxis |-> Axis(ColV),
                                zAxis |-> Axis(ColV),
                                aggregation |-> "count",
                                filters |-> filters]]
    /\ pc = "ready"
    /\ result = <<>>

NextFilter == GenerateChart

SpecFilter == InitFilter /\ [][NextFilter]_vars

-----------------------------------------------------------------------------
(* Calls of generateChart for a grouped series, on a sheet whose keys are   *)
(* the number 5 and the string "5" and whose values are numbers, text or    *)
(* missing                                                                   *)

GroupKeys == {Num(5), Str(TextFive)}
GroupRows ==
    {ChartRow(key, value) : key \in GroupKeys, value \in {Num(10), Num(-3), NotNumeric}}
    \cup {(ColCat :> key) : key \in GroupKeys}
GroupRequests == {"bar", "pie"} \X {"sum", "average", "count", "min", "max"}

InitGroup ==
    /\ data \in SeqsUpTo(GroupRows, MaxGroupRows)
    /\ \E req \in GroupRequests :
         request = [op |-> "generateChart",
                    config |-> [type |-> req[1],
                                xAxis |-> Axis(ColCat),
                                yAxis |-> Axis(ColV),
                                zAxis |-> Axis(ColV),
                                aggregation |-> req[2],
                                filters |-> <<>>]]
    /\ pc = "ready"
    /\ result = <<>>

NextGroup == GenerateChart

SpecGroup == InitGroup /\ [][NextGroup]_vars

-----------------------------------------------------------------------------
(* analysisUtils: generateInsights.  An insight is a sentence; the model    *)
(* keeps its kind, the words that vary and the names and numbers put into   *)
(* it.  A row is an object, the sequence of its entries.                    *)

Insight(kind, text, amount, var1, var2) ==
    [kind |-> kind, text |-> text, amount |-> amount, var1 |-> var1, var2 |-> var2]

\* the decimal digits of n with at least digits + 1 of them, and a point
\* before the last digits of them
FixedDigits(n, digits) ==
    LET s == PadZeros(NatToString(n), digits + 1)
    IN  SubSeq(s, 1, Len(s) - digits) \o <<".">> \o SubSeq(s, Len(s) - digits + 1, Len(s))

\* x.toFixed(digits): the nearest multiple of 10^-digits, the larger one of
\* two that are equally near
ToFixed(x, digits) ==
    IF ~IsFinite(x) THEN NumberToString(x)
    ELSE LET twice == 2 * Abs(x[1]) * Pow10(digits) + x[2]
             n == twice \div (2 * x[2])
         IN  (IF x[1] < 0 THEN <<"-">> ELSE <<>>) \o FixedDigits(n, digits)

TrendStableBelow == 5

analyzeTrend(chartData) ==
    LET values == chartData.datasets[1].data
        firstValue == At(values, 1)
        lastValue == At(values, Len(values))
        change == Mul(Div(Sub(lastValue, firstValue), firstValue), FromInt(100))
        magnitude == IF IsNaN(change) THEN NaN ELSE <<Abs(change[1]), change[2]>>
    IN  IF Lt(magnitude, FromInt(TrendStableBelow))
        THEN Insight("trend", "stable", <<>>, <<>>, <<>>)
        ELSE IF Gt(change, FromInt(0))
        THEN Insight("trend", "upward", ToFixed(change, 1), <<>>, <<>>)
        ELSE Insight("trend", "downward", ToFixed(magnitude, 1), <<>>, <<>>)

\* Math.abs(value) > 0.7 for a coefficient sgn * sqrt(sq)
AboveThreshold(value) == ~SurdIsNaN(value) /\ Gt(value.sq, <<49, 100>>)

\* value.toFixed(2) for a coefficient sgn * sqrt(sq): n hundredths with
\* n - 1/2 <= 100 * sqrt(sq) < n + 1/2
HundredthsOf(sq) ==
    CHOOSE n \in 0..(100 * (1 + sq[1] \div sq[2])) :
        /\ n = 0 \/ Le(FromInt((2 * n - 1) * (2 * n - 1)), Mul(FromInt(40000), sq))
        /\ Lt(Mul(FromInt(40000), sq), FromInt((2 * n + 1) * (2 * n + 1)))
RealToFixed2(value) ==
    IF SurdIsNaN(value) THEN NumberToString(NaN)
    ELSE (IF value.sgn < 0 THEN <<"-">> ELSE <<>>) \o FixedDigits(HundredthsOf(value.sq), 2)

\* the body of the inner loop for every entry of corrs
PairInsightsForEveryEntry(var1, corrs) ==
    LET strong == SelectSeq(ObjectEntries(corrs), LAMBDA e : AboveThreshold(e.v))
    IN  [i \in DOMAIN strong |->
            Insight("correlation",
                    IF strong[i].v.sgn > 0 THEN "positive" ELSE "negative",
                    RealToFixed2(strong[i].v), var1, strong[i].k)]

\* the inner loop over Object.entries(corrs)
PairInsights(var1, corrs) ==
    LET strong == SelectSeq(ObjectEntries(corrs),
                            LAMBDA e : StrLt(var1, e.k) /\ AboveThreshold(e.v))
    IN  [i \in DOMAIN strong |->
            Insight("correlation",
                    IF strong[i].v.sgn > 0 THEN "positive" ELSE "negative",
                    RealToFixed2(strong[i].v), var1, strong[i].k)]

AddPairInsights(insights, entry) == insights \o PairInsights(entry.k, entry.v)
analyzeCorrelations(correlations) ==
    Reduce(AddPairInsights, ObjectEntries(correlations), <<>>)

\* row[key] of a row object
RowCell(row, key) == IF ObjHas(row, key) THEN ObjGet(row, key) ELSE Undef

\* Object.keys(data[0]).filter(key => data.every(row => !isNaN(row[key])))
numericColumns(d) ==
    SelectSeq(ObjectKeys(d[1]),
              LAMBDA key : \A r \in DOMAIN d : CellIsNumeric(RowCell(d[r], key)))

\* data.map(row => row[column]).filter(val => !isNaN(val))
ColumnValues(d, column) ==
    MapSeq(ToNumber, SelectSeq([r \in DOMAIN d |-> RowCell(d[r], column)], CellIsNumeric))

\* the skewness is thirdMoment / (variance * sqrt(variance)) and is kept as
\* sgn * sqrt(sq); with variance 0 every term is 0 / 0
calculateBasicStats(values) ==
    LET n == FromInt(Len(values))
        mean == Div(Reduce(Add, values, FromInt(0)), n)
        Deviation(val) == Sub(val, mean)
        variance ==
            Div(Reduce(Add, [i \in DOMAIN values |->
                                Mul(Deviation(values[i]), Deviation(values[i]))],
                       FromInt(0)), n)
        thirdMoment ==
            Div(Reduce(Add, [i \in DOMAIN values |->
                                Mul(Deviation(values[i]),
                                    Mul(Deviation(values[i]), Deviation(values[i])))],
                       FromInt(0)), n)
        cube == Mul(variance, Mul(variance, variance))
    IN  [mean |-> mean, variance |-> variance, stdDev |-> MathSqrt(variance),
         skewness |-> IF IsNaN(variance) \/ variance = FromInt(0) THEN RealNaN
                      ELSE [sgn |-> Sgn(thirdMoment[1]),
                            sq |-> Div(Mul(thirdMoment, thirdMoment), cube)]]

SkewInsight(insights, column, skewness) ==
    IF SurdIsNaN(skewness) \/ ~Gt(skewness.sq, FromInt(1)) THEN insights
    ELSE IF skewness.sgn > 0
    THEN Append(insights, Insight("distribution", "positive skew", <<>>, column, <<>>))
    ELSE IF skewness.sgn < 0
    THEN Append(insights, Insight("distribution", "negative skew", <<>>, column, <<>>))
    ELSE insights

analyzeDistributions(d) ==
    LET columns == numericColumns(d)
        Skew(insights, column) ==
            SkewInsight(insights, column,
                        calculateBasicStats(ColumnValues(d, column)).skewness)
    IN  Reduce(Skew, columns, <<>>)

\* analyzeOutliers calls detectOutliers for the first numeric column; the
\* module neither defines nor imports that name, so the call is a
\* ReferenceError.  Without a numeric column the loop has no turn.
analyzeOutliersThrows(d) == numericColumns(d) # <<>>

\* what generateInsights returns when none of its steps throws
generateInsights(d, analysisResults) ==
    (IF analysisResults.type = "line"
     THEN <<analyzeTrend(analysisResults.data)>> ELSE <<>>)
    \o (IF analysisResults.correlations.defined
        THEN analyzeCorrelations(analysisResults.correlations.value) ELSE <<>>)
    \o analyzeDistributions(d)

\* data[0] of an empty table is undefined and Object.keys(undefined) in
\* analyzeDistributions is a TypeError
GenerateInsights ==
    /\ pc = "ready"
    /\ request.op = "generateInsights"
    /\ IF Len(data) = 0
       THEN /\ pc' = "threw"
            /\ result' = [error |-> "TypeError"]
       ELSE IF analyzeOutliersThrows(data)
       THEN /\ pc' = "threw"
            /\ result' = [error |-> "ReferenceError"]
       ELSE /\ pc' = "returned"
            /\ result' = generateInsights(data, request.analysisResults)
    /\ UNCHANGED <<data, request>>

NextInsight == GenerateInsights

-----------------------------------------------------------------------------
(* Calls of generateInsights: with a line or bar chart of two values over a  *)
(* table without numeric column; with a matrix of coefficients for the       *)
(* columns a, b and c over such a table; with a table of a numeric and a     *)
(* text column                                                               *)

ColC == <<"c">>
ColName == <<"n", "a", "m", "e">>
NoChart == [labels |-> <<>>, datasets |-> <<[label |-> ColV, data |-> <<>>]>>]
NoCorrelations == [defined |-> FALSE, value |-> <<>>]
TextTable == <<<<[k |-> ColName, v |-> NotNumeric]>>>>

TrendValues == {-10, -5, 0, 5, 100, 104, 105}
TrendSeries ==
    {<<>>} \cup {<<FromInt(v)>> : v \in TrendValues}
    \cup {<<FromInt(v), FromInt(w)>> : v \in TrendValues, w \in TrendValues}
TrendResults ==
    {[type |-> type,
      data |-> [labels |-> <<>>, datasets |-> <<[label |-> ColV, data |-> series]>>],
      correlations |-> NoCorrelations] :
        type \in {"line", "bar"}, series \in TrendSeries}

\* 1, -1, 0.7 (not above the threshold), sqrt(1/2), -sqrt(1/2), 0.5, 0, NaN
CoefficientValues ==
    {RealOne, [sgn |-> -1, sq |-> FromInt(1)], [sgn |-> 1, sq |-> <<49, 100>>],
     [sgn |-> 1, sq |-> <<1, 2>>], [sgn |-> -1, sq |-> <<1, 2>>],
     [sgn |-> 1, sq |-> <<1, 4>>], RealZero, RealNaN}
MatrixRow(order, self, values) ==
    [i \in DOMAIN order |->
        [k |-> order[i], v |-> IF order[i] = self THEN RealOne ELSE values[{self, order[i]}]]]
\* the symmetric matrix over the columns in the given order
Matrix(order, values) ==
    [i \in DOMAIN order |-> [k |-> order[i], v |-> MatrixRow(order, order[i], values)]]
ColumnOrders == {<<ColA, ColB, ColC>>, <<ColC, ColA, ColB>>}
ColumnPairs == {{ColA, ColB}, {ColA, ColC}, {ColB, ColC}}
PairResults ==
    {[type |-> "bar", data |-> NoChart,
      correlations |-> [defined |-> TRUE, value |-> Matrix(order, values)]] :
        order \in ColumnOrders, values \in [ColumnPairs -> CoefficientValues]}

InsightCells == {Num(1), Num(2), Num(3), Num(4), Num(100), NotNumeric}
InsightRow(value, name) == <<[k |-> ColV, v |-> value], [k |-> ColName, v |-> name]>>
InsightRows == {InsightRow(value, NotNumeric) : value \in InsightCells}

InitInsight ==
    /\ \/ /\ data = TextTable
          /\ \E results \in TrendResults \cup PairResults :
               request = [op |-> "generateInsights", analysisResults |-> results]
       \/ /\ data \in SeqsUpTo(InsightRows, MaxInsightRows)
          /\ request = [op |-> "generateInsights",
                        analysisResults |->
                            [type |-> "bar", data |-> NoChart,
                             correlations |-> NoCorrelations]]
    /\ pc = "ready"
    /\ result = <<>>

SpecInsight == InitInsight /\ [][NextInsight]_vars

-----------------------------------------------------------------------------
(* auth.controller, user.controller and the auth middleware.  data is the    *)
(* store: the users in the order of their creation (the position of a user   *)
(* is its id) and the ids for which a token has been issued.  request is the *)
(* request handled last, result its status code.  A handler runs from its    *)
(* request to its response in one step.                                      *)

User(role, email, name, application) ==
    [role |-> role, email |-> email, name |-> name, application |-> application]

\* a field the body of a request does not have
Absent == "absent"
Anonymous == 0

\* protect: the request carries a token issued for a user that still exists
protect(store, caller) == caller \in store.tokens /\ caller \in DOMAIN store.users

\* restrictTo(...roles), after protect
restrictTo(roles, store, caller) == store.users[caller].role \in roles

RealUsers == {"user", "admin", "pending-admin"}

EmailTaken(store, email, except) ==
    \E u \in DOMAIN store.users : u # except /\ store.users[u].email = email

Respond(req, status) == request' = req /\ result' = status /\ pc' = pc

\* register with a role taken from the body when it has one
RegisterTrustingBody(body) ==
    LET req == [op |-> "register", caller |-> Anonymous, target |-> Anonymous, body |-> body]
        id == Len(data.users) + 1
        role == IF body.role # Absent THEN body.role
                ELSE IF body.applyForAdmin THEN "pending-admin" ELSE "user"
    IN  /\ pc = "idle"
        /\ Len(data.users) < MaxUsers
        /\ IF EmailTaken(data, body.email, Anonymous)
           THEN /\ data' = data
                /\ Respond(req, 400)
           ELSE /\ data' = [users |-> Append(data.users,
                                User(role, body.email, body.name,
                                     IF body.applyForAdmin THEN "pending" ELSE Absent)),
                            tokens |-> data.tokens \cup {id}]
                /\ Respond(req, 201)

\* POST /register: the role is set from applyForAdmin alone; a duplicate
\* email is answered with 400
Register(body) ==
    LET req == [op |-> "register", caller |-> Anonymous, target |-> Anonymous, body |-> body]
        id == Len(data.users) + 1
        role == IF body.applyForAdmin THEN "pending-admin" ELSE "user"
    IN  /\ pc = "idle"
        /\ Len(data.users) < MaxUsers
        /\ IF EmailTaken(data, body.email, Anonymous)
           THEN /\ data' = data
                /\ Respond(req, 400)
           ELSE /\ data' = [users |-> Append(data.users,
                                User(role, body.email, body.name,
                                     IF body.applyForAdmin THEN "pending" ELSE Absent)),
                            tokens |-> data.tokens \cup {id}]
                /\ Respond(req, 201)

\* POST /login: a token for the user of the email, if the password is theirs
Login(user, passwordCorrect) ==
    LET req == [op |-> "login", caller |-> Anonymous, target |-> user,
                body |-> [passwordCorrect |-> passwordCorrect]]
    IN  /\ pc = "idle"
        /\ IF user \in DOMAIN data.users /\ passwordCorrect
           THEN /\ data' = [data EXCEPT !.tokens = @ \cup {user}]
                /\ Respond(req, 200)
           ELSE /\ data' = data
                /\ Respond(req, 401)

\* filterObj(req.body, 'name', 'email') applied to the user
filterObj(user, body) ==
    [user EXCEPT !.name = IF body.name # Absent THEN body.name ELSE @,
                 !.email = IF body.email # Absent THEN body.email ELSE @]

UpdateOwn(store, caller, body) ==
    IF body.email # Absent /\ EmailTaken(store, body.email, caller)
    THEN [store |-> store, status |-> 500]
    ELSE [store |-> [store EXCEPT !.users[caller] = filterObj(@, body)], status |-> 200]

\* PATCH /update-me, behind protect
UpdateMe(caller, body) ==
    LET req == [op |-> "update-me", caller |-> caller, target |-> caller, body |-> body]
    IN  /\ pc = "idle"
        /\ IF ~protect(data, caller)
           THEN data' = data /\ Respond(req, 401)
           ELSE IF body.password # Absent
           THEN data' = data /\ Respond(req, 400)
           ELSE /\ data' = UpdateOwn(data, caller, body).store
                /\ Respond(req, UpdateOwn(data, caller, body).status)

\* PATCH /profile, behind protect and restrictTo('user', 'admin', 'pending-admin')
UpdateProfile(caller, body) ==
    LET req == [op |-> "update-profile", caller |-> caller, target |-> caller, body |-> body]
    IN  /\ pc = "idle"
        /\ IF ~protect(data, caller)
           THEN data' = data /\ Respond(req, 401)
           ELSE IF ~restrictTo(RealUsers, data, caller)
           THEN data' = data /\ Respond(req, 403)
           ELSE /\ data' = UpdateOwn(data, caller, body).store
                /\ Respond(req, UpdateOwn(data, caller, body).status)

\* approveAdminApplication and rejectAdminApplication behind protect, the
\* restriction to real users and restrictTo('admin')
ReviewApplication(op, caller, id, role, application) ==
    LET req == [op |-> op, caller |-> caller, target |-> id, body |-> <<>>]
    IN  /\ pc = "idle"
        /\ IF ~protect(data, caller)
           THEN data' = data /\ Respond(req, 401)
           ELSE IF ~restrictTo(RealUsers, data, caller) \/ ~restrictTo({"admin"}, data, caller)
           THEN data' = data /\ Respond(req, 403)
           ELSE IF id \notin DOMAIN data.users \/ data.users[id].role # "pending-admin"
           THEN data' = data /\ Respond(req, 404)
           ELSE /\ data' = [data EXCEPT
                               !.users[id].role = role,
                               !.users[id].application =
                                   IF @ # Absent THEN application ELSE @]
                /\ Respond(req, 200)

ApproveAdmin(caller, id) == ReviewApplication("approve-admin", caller, id, "admin", "approved")
RejectAdmin(caller, id) == ReviewApplication("reject-admin", caller, id, "user", "rejected")

-----------------------------------------------------------------------------
(* Requests to a store that holds the administrator and the demo user made   *)
(* by scripts/createAdmin.js                                                 *)

AdminEmail == "admin@example.com"
DemoEmail == "demo-user@example.com"
OtherEmails == {"a@example.com"}
FirstName == "name"
OtherName == "other name"
SeededUsers ==
    <<User("admin", AdminEmail, FirstName, Absent), User("demo", DemoEmail, FirstName, Absent)>>

RegisterBodies ==
    [name : {FirstName}, email : OtherEmails \cup {AdminEmail},
     applyForAdmin : BOOLEAN, role : {Absent, "admin"}]
UpdateBodies ==
    {[name |-> OtherName, email |-> Absent, role |-> "admin", password |-> Absent],
     [name |-> Absent, email |-> "b@example.com", role |-> "admin", password |-> Absent],
     [name |-> Absent, email |-> Absent, role |-> "admin", password |-> "secret"]}
Callers == 0..MaxUsers

InitAuth ==
    /\ data = [users |-> SeededUsers, tokens |-> {}]
    /\ request = [op |-> "none"]
    /\ pc = "idle"
    /\ result = 0

NextAuth ==
    \/ \E body \in RegisterBodies : Register(body)
    \/ \E user \in Callers, passwordCorrect \in BOOLEAN : Login(user, passwordCorrect)
    \/ \E caller \in Callers, body \in UpdateBodies : UpdateMe(caller, body)
    \/ \E caller \in Callers, body \in UpdateBodies : UpdateProfile(caller, body)
    \/ \E caller \in Callers, id \in Callers : ApproveAdmin(caller, id)
    \/ \E caller \in Callers, id \in Callers : RejectAdmin(caller, id)

SpecAuth == InitAuth /\ [][NextAuth]_vars

-----------------------------------------------------------------------------
(* file.controller: processFile.  data is the store: the file documents by   *)
(* id, each with the spreadsheet its path leads to, whether a write to the   *)
(* store has failed, and how the engine parses dates.  A handler runs from   *)
(* one await to the next in one step; request[h] holds the id asked for and  *)
(* the locals of handler h, pc[h] where it stands, result[h] its last        *)
(* response.                                                                 *)

Handlers == {1, 2}

\* the spreadsheet on disk: XLSX.readFile throws for one that cannot be read,
\* sheet_to_json gives the rows of the first sheet otherwise; analyses holds
\* what analyzeFileData can return for these rows
Spreadsheet(readable, sheet, legacyDates) ==
    [readable |-> readable, sheet |-> sheet,
     analyses |-> IF readable /\ Len(sheet) > 0 THEN analyzeFileData(sheet, legacyDates)
                  ELSE {}]
UnreadableMessage == <<"Cannot read file">>
WriteFailedMessage == <<"Write failed">>

\* a document as File.create leaves it: processingStatus defaults to pending
FileDoc(content) ==
    [content |-> content, processingStatus |-> "pending", columns |-> <<>>,
     rowCount |-> Absent, columnCount |-> Absent, dataQualityScore |-> Absent,
     processingError |-> Absent]

Locals(id, analysis, error) == [id |-> id, analysis |-> analysis, error |-> error]
NoLocals == Locals(0, <<>>, <<>>)
Response(status) == [status |-> status]

StepOf(h, req, at, res) ==
    /\ request' = [request EXCEPT ![h] = req]
    /\ pc' = [pc EXCEPT ![h] = at]
    /\ result' = [result EXCEPT ![h] = res]

\* const file = await File.findById(req.params.id); 404 when there is none
FindFile(h, id) ==
    /\ pc[h] = "idle"
    /\ data' = data
    /\ IF id \in DOMAIN data.files
       THEN StepOf(h, Locals(id, <<>>, <<>>), "found", Response(0))
       ELSE StepOf(h, Locals(id, <<>>, <<>>), "idle", Response(404))

\* file.processingStatus = 'processing'; await file.save()
SaveProcessing(h, written) ==
    /\ pc[h] = "found"
    /\ IF written
       THEN /\ data' = [data EXCEPT !.files[request[h].id].processingStatus = "processing"]
            /\ StepOf(h, request[h], "processing", result[h])
       ELSE /\ data' = [data EXCEPT !.writeFailed = TRUE]
            /\ StepOf(h, [request[h] EXCEPT !.error = WriteFailedMessage], "threw", result[h])

\* XLSX.readFile, sheet_to_json and await analyzeFileData(data)
ReadAndAnalyze(h) ==
    LET content == data.files[request[h].id].content
    IN  /\ pc[h] = "processing"
        /\ data' = data
        /\ IF ~content.readable
           THEN StepOf(h, [request[h] EXCEPT !.error = UnreadableMessage], "threw", result[h])
           ELSE IF Len(content.sheet) = 0
           THEN StepOf(h, [request[h] EXCEPT !.error = NoDataMessage], "threw", result[h])
           ELSE \E analysis \in content.analyses :
                    StepOf(h, [request[h] EXCEPT !.analysis = analysis], "analyzed", result[h])

\* the document with the results of the analysis written to it
Completed(doc, analysis) ==
    [doc EXCEPT !.columns = analysis.columns,
                !.rowCount = analysis.rowCount,
                !.columnCount = analysis.columnCount,
                !.dataQualityScore = analysis.qualityScore,
                !.processingStatus = "completed"]

\* file.columns = ...; file.processingStatus = 'completed'; await file.save()
SaveCompleted(h, written) ==
    /\ pc[h] = "analyzed"
    /\ IF written
       THEN /\ data' = [data EXCEPT !.files[request[h].id] = Completed(@, request[h].analysis)]
            /\ StepOf(h, request[h], "saved", result[h])
       ELSE /\ data' = [data EXCEPT !.writeFailed = TRUE]
            /\ StepOf(h, [request[h] EXCEPT !.error = WriteFailedMessage], "threw", result[h])

\* res.status(200).json(...)
RespondSuccess(h) ==
    /\ pc[h] = "saved"
    /\ data' = data
    /\ StepOf(h, request[h], "idle", Response(200))

\* a catch block that only passes the error on
CatchWithoutUpdate(h, written) ==
    /\ pc[h] = "threw"
    /\ data' = data
    /\ StepOf(h, request[h], "idle", Response(500))

\* catch: await File.findByIdAndUpdate(id, {processingStatus: 'error',
\* processingError: error.message}); next(error).  When this write fails the
\* handler ends without a response.
Catch(h, written) ==
    /\ pc[h] = "threw"
    /\ IF written
       THEN /\ data' = [data EXCEPT !.files[request[h].id].processingStatus = "error",
                                    !.files[request[h].id].processingError = request[h].error]
            /\ StepOf(h, request[h], "idle", Response(500))
       ELSE /\ data' = [data EXCEPT !.writeFailed = TRUE]
            /\ StepOf(h, request[h], "idle", Response(0))

\* the steps of a handler that is under way
Continue(h) ==
    \/ \E written \in BOOLEAN : SaveProcessing(h, written)
    \/ ReadAndAnalyze(h)
    \/ \E written \in BOOLEAN : SaveCompleted(h, written)
    \/ RespondSuccess(h)
    \/ \E written \in BOOLEAN : Catch(h, written)

-----------------------------------------------------------------------------
(* Requests to process uploaded files: a sheet of two numbers, a sheet       *)
(* without rows, a file that cannot be read; and an id without document      *)

GoodSheet == OneColumnSheet(InferName, <<Str(TextOne), Str(TextTwo)>>)
Contents(legacyDates) ==
    {Spreadsheet(TRUE, GoodSheet, legacyDates), Spreadsheet(TRUE, <<>>, legacyDates),
     Spreadsheet(FALSE, <<>>, legacyDates)}
FileIds == 1..(MaxFiles + 1)

InitProcess ==
    /\ \E legacyDates \in BOOLEAN :
         \E contents \in [1..MaxFiles -> Contents(legacyDates)] :
            data = [files |-> [f \in 1..MaxFiles |-> FileDoc(contents[f])],
                    writeFailed |-> FALSE,
                    legacyDates |-> legacyDates]
    /\ request = [h \in Handlers |-> NoLocals]
    /\ pc = [h \in Handlers |-> "idle"]
    /\ result = [h \in Handlers |-> Response(0)]

NextProcess ==
    \E h \in Handlers :
        \/ \E id \in FileIds : FindFile(h, id)
        \/ Continue(h)

SpecProcess == InitProcess /\ [][NextProcess]_vars

\* the event loop runs every continuation that is ready
SpecProcessFair == SpecProcess /\ \A h \in Handlers : WF_vars(Continue(h))

-----------------------------------------------------------------------------
(* Properties of the descriptive statistics (SpecStats) *)

StatsReturned ==
    /\ pc = "returned"
    /\ request.op = "calculateStatistics"
    /\ request.columns[1].type = "number"
StatResult == ObjGet(result, StatName)

\* the non-empty cells of the column, as integers, in row order
StatColumn == [i \in 1..(Len(data) - 1) |-> data[i + 1][1]]
StatValidIdx == {i \in DOMAIN StatColumn : NonEmpty(StatColumn[i])}
StatCount == Cardinality(StatValidIdx)

\* the k-th smallest valid value (k = 1 is the minimum), by counting
KthSmallest(k) ==
    LET vals == {StatColumn[i].n : i \in StatValidIdx}
        Below(v) == Cardinality({i \in StatValidIdx : StatColumn[i].n < v})
        UpTo(v) == Cardinality({i \in StatValidIdx : StatColumn[i].n <= v})
    IN  CHOOSE v \in vals : Below(v) < k /\ k <= UpTo(v)

\* the median of the values of rank lo..hi (NaN when there is none)
MedianOfRanks(lo, hi) ==
    LET m == hi - lo + 1
    IN  IF m <= 0 THEN NaN
        ELSE IF m % 2 = 1 THEN FromInt(KthSmallest(lo + (m \div 2)))
        ELSE Div(FromInt(KthSmallest(lo + (m \div 2) - 1) + KthSmallest(lo + (m \div 2))),
                 FromInt(2))

ExampleColumn == <<Num(1), Num(2), Num(3), Num(4), Num(100)>>
IsExampleColumn == StatColumn = ExampleColumn

CountIn(seq, x) == Cardinality({i \in DOMAIN seq : seq[i] = x})

\* C2: for a numeric column of any length >= 1, Q1 <= Q2 <= Q3 and the
\* outliers are values of the column, none more often than in the column.
C2_QuartilesOrderedOutliersFromColumn ==
    StatsReturned /\ StatCount >= 1 =>
        /\ Le(StatResult.quartiles.Q1, StatResult.quartiles.Q2)
        /\ Le(StatResult.quartiles.Q2, StatResult.quartiles.Q3)
        /\ \A j \in DOMAIN StatResult.outliers :
             LET o == StatResult.outliers[j]
             IN  CountIn(StatResult.outliers, o)
                   <= Cardinality({i \in StatValidIdx : FromInt(StatColumn[i].n) = o})

-----------------------------------------------------------------------------
(* Properties of the correlation matrix (SpecCorr) *)

CorrReturned == pc = "returned" /\ request.op = "calculateCorrelation"
CorrColumns == {request.columns[i] : i \in DOMAIN request.columns}
Coefficient(a, b) == ObjGet(ObjGet(result, a), b)

\* C3: the matrix is symmetric, M[a][b] = M[b][a] as numbers (NaN equals
\* nothing), and its diagonal is 1, whatever cells are missing or not numeric.
C3_MatrixSymmetricDiagonalOne ==
    CorrReturned =>
        \A a \in CorrColumns, b \in CorrColumns :
            /\ ~SurdIsNaN(Coefficient(a, b))
            /\ Coefficient(a, b) = Coefficient(b, a)
            /\ Coefficient(a, a) = RealOne

\* C4: every coefficient of the matrix lies in [-1, 1].
C4_CoefficientsWithinUnitInterval ==
    CorrReturned =>
        \A a \in CorrColumns, b \in CorrColumns :
            /\ ~SurdIsNaN(Coefficient(a, b))
            /\ Le(Coefficient(a, b).sq, FromInt(1))

-----------------------------------------------------------------------------
(* Properties of the regression (SpecRegr) *)

RegCalled == pc # "ready" /\ request.op = "performRegression"
RegReturned == pc = "returned" /\ request.op = "performRegression"
RegN == Len(data)
RegP == Len(request.independentVars)
RegXs == [r \in DOMAIN data |-> data[r][ColX].n]
RegYs == [r \in DOMAIN data |-> data[r][ColY].n]

\* at least 3 rows, distinct x, every row on y = 2x + 3, regressed on x alone
OnTheLine ==
    /\ request.independentVars = <<ColX>>
    /\ RegN >= 3
    /\ \A r1 \in DOMAIN data, r2 \in DOMAIN data : r1 # r2 => RegXs[r1] # RegXs[r2]
    /\ \A r \in DOMAIN data : RegYs[r] = 2 * RegXs[r] + 3

C6_OneCoefficientPerVariable ==
    RegReturned /\ RegP >= 1 =>
        /\ Len(result.coefficients) = RegP
        /\ Len(result.predictions) = RegN

\* C7: when n - p - 1 <= 0 the call fails and returns nothing, and a returned
\* adjustedRSquared is never Infinity or NaN.
C7_DegenerateRegressionRaises ==
    RegCalled =>
        /\ RegN - RegP - 1 <= 0 => pc = "threw"
        /\ pc = "returned" => IsFinite(result.adjustedRSquared)

-----------------------------------------------------------------------------
(* Properties of the chart series (SpecChart, SpecFilter) *)

ChartReturned == pc = "returned" /\ request.op = "generateChart"
Config == request.config
SeriesReturned == ChartReturned /\ Config.type \in ChartTypes2D
SeriesLabels == result.labels
SeriesValues == result.datasets[1].data

\* the rows whose key reads as the label, and the value each contributes
\* (0 for a cell that is not a number)
RowsOfLabel(label) ==
    {r \in DOMAIN data : ToString_(RowGet(data[r], Config.xAxis.column)) = label}
RowValue(r) == NumberOrZero(RowGet(data[r], Config.yAxis.column))

RECURSIVE SumOfRows(_)
SumOfRows(R) ==
    IF R = {} THEN FromInt(0)
    ELSE LET r == CHOOSE q \in R : TRUE
         IN  Add(RowValue(r), SumOfRows(R \ {r}))

IsReductionOf(value, R, aggregation) ==
    CASE aggregation = "sum" -> value = SumOfRows(R)
      [] aggregation = "average" ->
            Mul(value, FromInt(Cardinality(R))) = SumOfRows(R)
      [] aggregation = "count" -> value = FromInt(Cardinality(R))
      [] aggregation = "min" ->
            /\ \E r \in R : value = RowValue(r)
            /\ \A r \in R : Le(value, RowValue(r))
      [] aggregation = "max" ->
            /\ \E r \in R : value = RowValue(r)
            /\ \A r \in R : Le(RowValue(r), value)
      [] OTHER -> TRUE

ExampleGroups ==
    /\ data = <<ChartRow(KeyA, Num(10)), ChartRow(KeyA, Num(20)), ChartRow(KeyB, Num(5))>>
    /\ Config.aggregation = "average"

\* C8: in a bar, line or area chart labels and values have the same length,
\* and values[i] is the reduction, by the aggregation kind, of the rows whose
\* key is labels[i]; the example rows give A: 15, B: 5 under average.
C8_ValuesAreGroupReductions ==
    SeriesReturned =>
        /\ Len(SeriesLabels) = Len(SeriesValues)
        /\ \A i \in DOMAIN SeriesLabels :
             /\ RowsOfLabel(SeriesLabels[i]) # {}
             /\ IsFinite(SeriesValues[i])
             /\ IsReductionOf(SeriesValues[i], RowsOfLabel(SeriesLabels[i]),
                              Config.aggregation)
             /\ \A j \in DOMAIN SeriesLabels : SeriesLabels[j] = SeriesLabels[i] => j = i
        /\ ExampleGroups =>
             /\ SeriesLabels = <<<<"A">>, <<"B">>>>
             /\ SeriesValues = <<FromInt(15), FromInt(5)>>

C8_Witness ==
    SeriesReturned /\ ExampleGroups /\ SeriesValues = <<FromInt(15), FromInt(5)>>

\* C9: with no filters and aggregation count the values of the series sum to
\* the number of rows of the table, whatever the keys are.
C9_CountsSumToRowCount ==
    SeriesReturned /\ Config.aggregation = "count" /\ Config.filters = <<>> =>
        Reduce(Add, SeriesValues, FromInt(0)) = FromInt(Len(data))

\* the rows that satisfy every filter of the list, and the k-th of them
KeptRows == {r \in DOMAIN data :
                \A f \in DOMAIN Config.filters : FilterMatches(data[r], Config.filters[f])}
KthKept(k) == CHOOSE r \in KeptRows : Cardinality({q \in KeptRows : q <= r}) = k
PointOfRow(r) == [x |-> RowGet(data[r], Config.xAxis.column),
                  y |-> RowGet(data[r], Config.yAxis.column)]

ExampleFilter ==
    /\ data = <<(ColStatus :> StatusOk), (ColStatus :> StatusFail)>>
    /\ Config.filters = <<FilterSpec(ColStatus, "equals", StatusOk)>>

\* C10: the chart is built from exactly the rows that satisfy every filter,
\* in their original order: a scatter series has one point for each such row,
\* in row order, and the counts of a grouped series sum to their number; the
\* filter status equals ok keeps the first of the rows [ok, fail].
C10_FiltersConjunctiveBeforeGrouping ==
    ChartReturned =>
        /\ Config.type = "scatter" =>
             /\ Len(result.datasets[1].data) = Cardinality(KeptRows)
             /\ \A k \in DOMAIN result.datasets[1].data :
                  result.datasets[1].data[k] = PointOfRow(KthKept(k))
             /\ ExampleFilter => result.datasets[1].data = <<[x |-> StatusOk, y |-> Undef]>>
        /\ Config.type = "bar" =>
             /\ Reduce(Add, SeriesValues, FromInt(0)) = FromInt(Cardinality(KeptRows))
             /\ \A i \in DOMAIN SeriesLabels :
                  \E r \in KeptRows : ToString_(data[r][ColStatus]) = SeriesLabels[i]

C10_Witness ==
    /\ ChartReturned /\ Config.type = "scatter" /\ ExampleFilter
    /\ Len(result.datasets[1].data) = 1

-----------------------------------------------------------------------------
(* Properties of the type inference (SpecInfer) *)

AnalyzeReturned == pc = "returned" /\ request.op = "analyzeFileData"

\* the cells of column c of the sheet, and the rows of its non-empty cells
SheetColumn(c) == [i \in 1..(Len(data) - 1) |-> CellAt(data[i + 1], c)]
NonEmptyRows(c) == {i \in DOMAIN SheetColumn(c) : NonEmpty(SheetColumn(c)[i])}
NumericRows(c) == {i \in NonEmptyRows(c) : isNumber(SheetColumn(c)[i])}
DateRows(c) == {i \in NonEmptyRows(c) : isDate(SheetColumn(c)[i], request.legacyDates)}

\* C11: for a column whose non-empty values all fit the sample, the type is
\* number when at least 80% (four fifths) of them are numeric, otherwise date
\* when at least 80% are dates, otherwise text (which the program names
\* "string"); the column ["1", "2", "3.5", "N/A"] is text.
C11_TypeByEightyPercent ==
    /\ AnalyzeReturned
    /\ NonEmptyRows(1) # {}
    /\ Cardinality(NonEmptyRows(1)) <= SampleLimit
    => /\ result.columns[1].type =
            IF 5 * Cardinality(NumericRows(1)) >= 4 * Cardinality(NonEmptyRows(1))
            THEN "number"
            ELSE IF 5 * Cardinality(DateRows(1)) >= 4 * Cardinality(NonEmptyRows(1))
            THEN "date"
            ELSE "string"
       /\ SheetColumn(1) = ExampleSample => result.columns[1].type = "string"

C11_Witness ==
    /\ AnalyzeReturned
    /\ SheetColumn(1) = ExampleSample
    /\ Cardinality(NumericRows(1)) = 3
    /\ result.columns[1].type = "string"

-----------------------------------------------------------------------------
(* Properties of the sample of the type inference (SpecSample) *)

\* the first hundred non-empty values of column c, in order
FirstHundred(c) == Take(SelectSeq(SheetColumn(c), NonEmpty), SampleLimit)

\* C12: two columns whose first 100 non-empty values are the same, in the
\* same order, get the same type, whatever follows these values and whatever
\* empty cells lie between them; a column analysed twice gets one type.
C12_TypeDependsOnSampleOnly ==
    AnalyzeReturned /\ Len(result.columns) = 2 /\ FirstHundred(1) = FirstHundred(2) =>
        result.columns[1].type = result.columns[2].type

C12_Witness ==
    /\ AnalyzeReturned /\ Len(result.columns) = 2
    /\ FirstHundred(1) = FirstHundred(2)
    /\ SelectSeq(SheetColumn(1), NonEmpty) # SelectSeq(SheetColumn(2), NonEmpty)
    /\ Len(SelectSeq(SheetColumn(1), NonEmpty)) > SampleLimit
    /\ result.columns[1].type = "number"

-----------------------------------------------------------------------------
(* Properties of the column analysis (SpecAnalyze) *)

\* the rows of column c that hold null, undefined or the empty string
EmptyRows(c) ==
    {i \in DOMAIN SheetColumn(c) :
        \/ SheetColumn(c)[i] = Null
        \/ SheetColumn(c)[i] = Undef
        \/ SheetColumn(c)[i] = Str(<<>>)}
\* the rows that hold the first occurrence of a value that is not empty
FirstOccurrences(c) ==
    {i \in DOMAIN SheetColumn(c) \ EmptyRows(c) :
        \A j \in 1..(i - 1) : SheetColumn(c)[j] # SheetColumn(c)[i]}
HoldsFiveTwice(c) ==
    /\ \E i \in DOMAIN SheetColumn(c) : SheetColumn(c)[i] = Num(5)
    /\ \E i \in DOMAIN SheetColumn(c) : SheetColumn(c)[i] = Str(TextFive)
    /\ \A i \in DOMAIN SheetColumn(c) : SheetColumn(c)[i] \in {Num(5), Str(TextFive), Null}

\* C13: nullCount is the number of cells that are null, undefined or the
\* empty string; uniqueCount is the number of different values among the
\* others, the string "5" and the number 5 being two values; a column with
\* rows that are all empty is text ("string") with nullCount its row count.
C13_NullAndUniqueCounts ==
    AnalyzeReturned =>
        /\ result.columns[1].statistics.nullCount = Cardinality(EmptyRows(1))
        /\ result.columns[1].statistics.uniqueCount = Cardinality(FirstOccurrences(1))
        /\ HoldsFiveTwice(1) => result.columns[1].statistics.uniqueCount = 2
        /\ EmptyRows(1) = DOMAIN SheetColumn(1) /\ Len(SheetColumn(1)) > 0 =>
             /\ result.columns[1].type = "string"
             /\ result.columns[1].statistics.nullCount = result.rowCount

C13_Witness ==
    /\ AnalyzeReturned
    /\ SheetColumn(1) = <<Num(5), Str(TextFive), Null, Num(5)>>
    /\ result.columns[1].statistics.uniqueCount = 2
    /\ result.columns[1].statistics.nullCount = 1

-----------------------------------------------------------------------------
(* Properties of the failures of generateChart (SpecChart, SpecFilter) *)

ChartCalled == pc # "ready" /\ request.op = "generateChart"
ChartKinds == {"bar", "line", "area", "pie", "scatter", "3d-bar", "3d-scatter", "3d-surface"}

\* C14: a call of generateChart with a chart type that is none of the
\* supported ones fails with the error "Unsupported chart type" that names
\* the type, and returns no series.
C14_UnsupportedTypeRaises ==
    ChartCalled /\ Config.type \notin ChartKinds =>
        /\ pc = "threw"
        /\ result.error = "Unsupported chart type"
        /\ result.type = Config.type
        /\ DOMAIN result = {"error", "type"}

C14_Witness ==
    /\ ChartCalled /\ Config.type = "radar" /\ Len(data) > 0
    /\ pc = "threw" /\ result.type = "radar"

Aggregations == {"sum", "average", "count", "min", "max"}
Operators ==
    {"equals", "not_equals", "contains", "not_contains", "greater_than", "less_than"}
UnknownAggregation == Config.type \in ChartTypes2D /\ Config.aggregation \notin Aggregations
UnknownOperator ==
    \E f \in DOMAIN Config.filters : Config.filters[f].operator \notin Operators

\* C15: a call of generateChart whose aggregation is none of sum, average,
\* count, min, max, or one of whose filters has an operator that is none of
\* the six known ones, fails with an error instead of returning a chart
\* (for a table that is not empty).
C15_UnknownAggregationOrOperatorRaises ==
    /\ ChartCalled /\ Config.type \in ChartKinds /\ Len(data) > 0
    /\ UnknownAggregation \/ UnknownOperator
    => pc = "threw"

\* a table without rows: no array element at all, or for calculateStatistics
\* (whose first array element is the header) nothing after the header
TableIsEmpty ==
    IF request.op = "calculateStatistics" THEN Len(data) <= 1 ELSE Len(data) = 0

\* C16: an operation called on an empty table fails with an error that
\* describes the invalid input: it neither returns a result nor fails with a
\* TypeError of the language.
C16_EmptyTableRaisesInvalidInput ==
    pc # "ready" /\ TableIsEmpty =>
        /\ pc = "threw"
        /\ result.error # "TypeError"

-----------------------------------------------------------------------------
(* Properties of the correlation of linear data (SpecCorr) *)

CorrXs == [r \in DOMAIN data |-> data[r][ColA]]
CorrYs == [r \in DOMAIN data |-> data[r][ColB]]
FullyNumeric == \A r \in DOMAIN data : CorrXs[r].t = "num" /\ CorrYs[r].t = "num"
\* b = (q / p) * a + c / p on every row, for a slope q / p > 0
IncreasingLine ==
    \E p \in 1..2, q \in 1..2, c \in -4..4 :
        \A r \in DOMAIN data : p * CorrYs[r].n = q * CorrXs[r].n + c
NotConstant == \E r, t \in DOMAIN data : CorrXs[r] # CorrXs[t]

-----------------------------------------------------------------------------
(* Properties of the insights (SpecInsight) *)

InsightCalled == pc # "ready" /\ request.op = "generateInsights"
InsightReturned == pc = "returned" /\ request.op = "generateInsights"
Results == request.analysisResults
InsightsOfKind(kind) == SelectSeq(result, LAMBDA insight : insight.kind = kind)

\* C18: for a table that is not empty the call returns, and for every
\* numeric column the insights hold one outlier insight if the column has
\* outliers by the interquartile rule, with their number, and none otherwise.
C18_OutlierInsightPerNumericColumn ==
    InsightCalled /\ Len(data) > 0 =>
        /\ pc = "returned"
        /\ \A c \in DOMAIN numericColumns(data) :
             LET column == numericColumns(data)[c]
                 outliers == detectOutliers(ColumnValues(data, column))
                 about == SelectSeq(InsightsOfKind("outlier"),
                                    LAMBDA insight : insight.var1 = column)
             IN  IF Len(outliers) > 0
                 THEN Len(about) = 1 /\ about[1].amount = NatToString(Len(outliers))
                 ELSE about = <<>>

Matrix_ == Results.correlations.value
MatrixColumns == {Matrix_[i].k : i \in DOMAIN Matrix_}
CoefficientOf(u, v) == ObjGet(ObjGet(Matrix_, u), v)
\* |r| > 0.7 for r = sgn * sqrt(sq): sq > 49/100
Strong(r) == r.sq # NaN /\ 100 * r.sq[1] > 49 * r.sq[2]
InsightsAbout(u, v) ==
    {i \in DOMAIN result :
        /\ result[i].kind = "correlation"
        /\ {result[i].var1, result[i].var2} = {u, v}}

Series == Results.data.datasets[1].data
FirstOfSeries == Series[1]
LastOfSeries == Series[Len(Series)]
\* |(last - first) / first| * 100
PercentChange ==
    LET change == Mul(Div(Sub(LastOfSeries, FirstOfSeries), FirstOfSeries), FromInt(100))
    IN  IF IsNaN(change) THEN NaN ELSE <<Abs(change[1]), change[2]>>

\* C20: there is a trend insight only for a line chart; it says stable when
\* the change from the first to the last value is below 5 percent of the
\* first value, and otherwise upward exactly when the last value is greater
\* than the first and downward exactly when it is smaller, whatever the sign
\* of the first value.
C20_TrendFollowsLastAgainstFirst ==
    InsightReturned =>
        /\ Results.type # "line" => InsightsOfKind("trend") = <<>>
        /\ Results.type = "line" /\ Len(Series) > 0 =>
             /\ Len(InsightsOfKind("trend")) = 1
             /\ LET text == InsightsOfKind("trend")[1].text
                IN  IF Lt(PercentChange, FromInt(5)) THEN text = "stable"
                    ELSE /\ text = "upward" <=> Gt(LastOfSeries, FirstOfSeries)
                         /\ text = "downward" <=> Lt(LastOfSeries, FirstOfSeries)

-----------------------------------------------------------------------------
(* Properties of the statistics of a number column (SpecInfer) *)

\* the numbers of the non-empty cells of column c that Number() can read, in
\* row order
IsCoercible(cell) == ~IsNaN(ToNumber(cell))
CoercibleNumbers(c) ==
    MapSeq(ToNumber, SelectSeq(SelectSeq(SheetColumn(c), NonEmpty), IsCoercible))

\* C21: the min, max, mean and median of a number column are those of the
\* column without the non-empty values that fail numeric coercion, and none
\* of them is NaN because of such a value.
C21_NonCoercibleValuesExcluded ==
    AnalyzeReturned /\ result.columns[1].type = "number" =>
        LET statistics == result.columns[1].statistics
            kept == CoercibleNumbers(1)
        IN  /\ statistics.min = NumberValue(MathMinAll(kept))
            /\ statistics.max = NumberValue(MathMaxAll(kept))
            /\ statistics.mean = NumberValue(calculateMean(kept))
            /\ statistics.median = NumberValue(calculateMedian(kept))
            /\ ~IsNaN(statistics.mean.value)

-----------------------------------------------------------------------------
(* Properties of the vectors of a correlation (SpecCorr) *)

\* the rows in which both columns hold a value that passes numeric coercion
AlignedRows(a, b) ==
    {r \in DOMAIN data : CellIsNumeric(RowGet(data[r], a)) /\ CellIsNumeric(RowGet(data[r], b))}
\* the values of column a on these rows, in row order
RECURSIVE AlignedVector(_, _, _)
AlignedVector(a, b, r) ==
    IF r > Len(data) THEN <<>>
    ELSE (IF r \in AlignedRows(a, b) THEN <<ToNumber(RowGet(data[r], a))>> ELSE <<>>)
         \o AlignedVector(a, b, r + 1)

\* C22: for every pair of distinct columns the two vectors given to the
\* Pearson formula have equal length and hold, element by element, the values
\* of the rows in which both columns are numeric; the coefficient of the pair
\* is the one of these vectors.
C22_VectorsAreRowAligned ==
    CorrReturned =>
        \A a \in CorrColumns : \A b \in CorrColumns \ {a} :
            /\ Len(NumericColumn(data, a)) = Len(NumericColumn(data, b))
            /\ NumericColumn(data, a) = AlignedVector(a, b, 1)
            /\ NumericColumn(data, b) = AlignedVector(b, a, 1)
            /\ Coefficient(a, b) =
                 pearsonCorrelation(AlignedVector(a, b, 1), AlignedVector(b, a, 1))

\* n * sum of squares - square of the sum, zero exactly for a vector without
\* two different values
Spread(v) ==
    LET sum == Reduce(Add, v, FromInt(0))
        squares == Reduce(Add, [i \in DOMAIN v |-> Mul(v[i], v[i])], FromInt(0))
    IN  Sub(Mul(FromInt(Len(v)), squares), Mul(sum, sum))
\* the denominator of the Pearson formula over the row-aligned vectors is 0
DenominatorIsZero(a, b) ==
    Mul(Spread(AlignedVector(a, b, 1)), Spread(AlignedVector(b, a, 1))) = FromInt(0)

\* C23: for a pair of distinct columns whose Pearson denominator is 0 (one
\* of the two is constant on the paired rows, or there is no such row) the
\* coefficient returned is 0, never NaN.
C23_ZeroDenominatorGivesZero ==
    CorrReturned =>
        \A a \in CorrColumns : \A b \in CorrColumns \ {a} :
            DenominatorIsZero(a, b) => Coefficient(a, b) = RealZero

-----------------------------------------------------------------------------
(* Properties of the groups of a series (SpecGroup) *)

GroupedReturned == ChartReturned /\ Config.type \in {"bar", "pie"}
\* the raw values of the group-by column, a number and a string being two
RawKeys == {RowGet(data[r], Config.xAxis.column) : r \in DOMAIN data}
RowsOfKey(key) == {r \in DOMAIN data : RowGet(data[r], Config.xAxis.column) = key}

\* C24: the series has one label for each raw value of the group-by column:
\* rows with the number 5 and rows with the string "5" are two groups, and
\* the value of each is the reduction of its own rows.
C24_RawKeysGroupSeparately ==
    GroupedReturned /\ Config.type = "bar" =>
        /\ Len(SeriesLabels) = Cardinality(RawKeys)
        /\ \A key \in RawKeys :
             \E i \in DOMAIN SeriesLabels :
                 /\ SeriesLabels[i] = ToString_(key)
                 /\ Config.aggregation = "count" =>
                      SeriesValues[i] = FromInt(Cardinality(RowsOfKey(key)))

\* what the value cell of row r adds to its group: its number, 0 for a cell
\* that is missing or not numeric
Contribution(r) ==
    LET cell == RowGet(data[r], Config.yAxis.column)
    IN  IF cell.t = "num" THEN FromInt(cell.n) ELSE FromInt(0)
RECURSIVE SumOfContributions(_)
SumOfContributions(R) ==
    IF R = {} THEN FromInt(0)
    ELSE LET r == CHOOSE q \in R : TRUE
         IN  Add(Contribution(r), SumOfContributions(R \ {r}))
ValueOfLabel(label) ==
    SeriesValues[CHOOSE i \in DOMAIN SeriesLabels : SeriesLabels[i] = label]

\* the rows of the table whose value cell is missing or not numeric
ZeroFilledRows == {r \in DOMAIN data : RowGet(data[r], Config.yAxis.column).t # "num"}

\* C25: every call returns; each row, whatever its value cell, belongs to
\* the group of its key, counts 1 there and adds its contribution (0 for a
\* missing or non-numeric cell) to the sum, the minimum and the maximum, so
\* that it lowers an average of positive values.
C25_NonNumericCountsAsZero ==
    /\ ChartCalled => pc = "returned"
    /\ GroupedReturned /\ Config.type = "bar" =>
         \A r \in DOMAIN data :
            LET label == ToString_(RowGet(data[r], Config.xAxis.column))
                R == RowsOfLabel(label)
                value == ValueOfLabel(label)
            IN  /\ \E i \in DOMAIN SeriesLabels : SeriesLabels[i] = label
                /\ Config.aggregation = "sum" => value = SumOfContributions(R)
                /\ Config.aggregation = "count" => value = FromInt(Cardinality(R))
                /\ Config.aggregation = "average" =>
                     Mul(value, FromInt(Cardinality(R))) = SumOfContributions(R)
                /\ Config.aggregation = "min" =>
                     /\ Le(value, Contribution(r))
                     /\ \E q \in R : value = Contribution(q)
                /\ Config.aggregation = "max" =>
                     /\ Le(Contribution(r), value)
                     /\ \E q \in R : value = Contribution(q)

C25_Witness ==
    /\ GroupedReturned /\ Config.type = "bar" /\ Config.aggregation = "average"
    /\ data = <<ChartRow(Num(5), Num(10)), ChartRow(Num(5), NotNumeric)>>
    /\ ZeroFilledRows = {2}
    /\ SeriesValues = <<FromInt(5)>>

-----------------------------------------------------------------------------
(* Properties of the pie chart (SpecGroup) *)

PieReturned == ChartReturned /\ Config.type = "pie"

\* C28: the values of a pie chart are the sums of the value column over the
\* rows of each label, whatever aggregation kind the configuration names.
C28_PieValuesAreSums ==
    PieReturned =>
        /\ Len(SeriesLabels) = Len(SeriesValues)
        /\ \A i \in DOMAIN SeriesLabels :
             SeriesValues[i] = SumOfContributions(RowsOfLabel(SeriesLabels[i]))
        /\ \A r \in DOMAIN data :
             \E i \in DOMAIN SeriesLabels :
                 SeriesLabels[i] = ToString_(RowGet(data[r], Config.xAxis.column))

C28_Witness ==
    /\ PieReturned /\ Config.aggregation = "min"
    /\ data = <<ChartRow(Num(5), Num(10)), ChartRow(Num(5), Num(-3))>>
    /\ SeriesValues = <<FromInt(7)>>

-----------------------------------------------------------------------------
(* Properties of the mode of a number column (SpecInfer) *)

\* the numbers of the non-empty cells of column c, in row order
ColumnNumbers(c) == MapSeq(ToNumber, SelectSeq(SheetColumn(c), NonEmpty))
Frequency(numbers, x) == Cardinality({i \in DOMAIN numbers : numbers[i] = x})
\* the values of highest frequency, and the one of them that occurs first
MostFrequent(numbers) ==
    {numbers[i] : i \in {j \in DOMAIN numbers :
        \A k \in DOMAIN numbers :
            Frequency(numbers, numbers[k]) <= Frequency(numbers, numbers[j])}}
FirstMostFrequent(numbers) ==
    numbers[CHOOSE i \in DOMAIN numbers :
               /\ numbers[i] \in MostFrequent(numbers)
               /\ \A j \in 1..(i - 1) : numbers[j] \notin MostFrequent(numbers)]

\* C26: the mode of a number column is a value of highest frequency, and of
\* several such values the one that occurs first in the column.
C26_ModeIsFirstMostFrequent ==
    AnalyzeReturned /\ result.columns[1].type = "number" =>
        /\ result.columns[1].statistics.mode.kind = "number"
        /\ result.columns[1].statistics.mode.value \in MostFrequent(ColumnNumbers(1))
        /\ result.columns[1].statistics.mode.value = FirstMostFrequent(ColumnNumbers(1))

-----------------------------------------------------------------------------
(* Properties of the most common values of a text column (SpecText) *)

TextReturned ==
    /\ pc = "returned"
    /\ request.op = "calculateStatistics"
    /\ request.columns[1].type = "string"
MostCommon == ObjGet(result, StatName).mostCommon

\* the values of the column, how often each occurs and where it occurs first
TextValues == {StatColumn[i] : i \in DOMAIN StatColumn}
Occurrences(value) == Cardinality({i \in DOMAIN StatColumn : StatColumn[i] = value})
FirstRow(value) == CHOOSE i \in DOMAIN StatColumn :
    StatColumn[i] = value /\ \A j \in 1..(i - 1) : StatColumn[j] # value
\* u comes before v: it occurs more often, or as often and earlier
RanksBefore(u, v) ==
    \/ Occurrences(u) > Occurrences(v)
    \/ Occurrences(u) = Occurrences(v) /\ FirstRow(u) < FirstRow(v)
Ranked(i) == CHOOSE v \in TextValues :
    Cardinality({u \in TextValues : RanksBefore(u, v)}) = i - 1

\* C27: mostCommon holds the 5 most frequent values of a text column (all
\* of them if there are fewer), by descending count and, among values of equal
\* count, by first occurrence; each with the number of its occurrences.
C27_MostCommonTopFive ==
    TextReturned =>
        /\ Len(MostCommon) = IF Cardinality(TextValues) < 5 THEN Cardinality(TextValues) ELSE 5
        /\ \A i \in DOMAIN MostCommon :
             /\ MostCommon[i].k = ToString_(Ranked(i))
             /\ MostCommon[i].v = Occurrences(Ranked(i))

-----------------------------------------------------------------------------
(* Properties of the roles (SpecAuth) *)

RoleOf(store, u) == store.users[u].role

\* C29: a step that creates a user is a registration and gives the role
\* user or pending-admin; a step that changes a role is the review of the
\* pending application of that user by a caller who is an administrator, and
\* only an approval makes an administrator; an update of the own profile
\* changes nothing but the name and the email of the caller.
C29_AdminOnlyByApproval ==
    [][\A u \in DOMAIN data'.users :
          /\ u \notin DOMAIN data.users =>
                /\ request'.op = "register"
                /\ RoleOf(data', u) \in {"user", "pending-admin"}
          /\ u \in DOMAIN data.users /\ RoleOf(data', u) # RoleOf(data, u) =>
                /\ request'.op \in {"approve-admin", "reject-admin"}
                /\ request'.target = u
                /\ request'.caller \in DOMAIN data.users
                /\ RoleOf(data, request'.caller) = "admin"
                /\ RoleOf(data, u) = "pending-admin"
                /\ RoleOf(data', u) = "admin" => request'.op = "approve-admin"
          /\ u \in DOMAIN data.users /\ request'.op \in {"update-me", "update-profile"} =>
                /\ RoleOf(data', u) = RoleOf(data, u)
                /\ data'.users[u].application = data.users[u].application
                /\ u # request'.caller => data'.users[u] = data.users[u]
    ]_vars

C29_Witness ==
    /\ request.op = "approve-admin"
    /\ request.target = 3
    /\ result = 200
    /\ RoleOf(data, 3) = "admin"
    /\ RoleOf(data, request.caller) = "admin"

-----------------------------------------------------------------------------
(* Properties of the processing status (SpecProcessFair) *)

Files == data.files
UnderWay(f) == \E h \in Handlers : pc[h] # "idle" /\ request[h].id = f
\* the message of the step that throws for the spreadsheet of a document
FailureOf(doc) == IF ~doc.content.readable THEN UnreadableMessage ELSE NoDataMessage
Analyzable(doc) == doc.content.readable /\ Len(doc.content.sheet) > 0

\* while every write succeeds: a file is in processing only while a handler
\* works on it; it is completed only with an analysis of its sheet stored,
\* and in error only with the message of the failure stored
StatusFollowsOutcome ==
    ~data.writeFailed =>
        \A f \in DOMAIN Files :
            /\ Files[f].processingStatus = "processing" => UnderWay(f)
            /\ Files[f].processingStatus = "completed" =>
                 /\ Analyzable(Files[f])
                 /\ \E analysis \in analyzeFileData(Files[f].content.sheet, data.legacyDates) :
                        Files[f] = Completed(Files[f], analysis)
            /\ Files[f].processingStatus = "error" =>
                 /\ ~Analyzable(Files[f])
                 /\ Files[f].processingError = FailureOf(Files[f])
\* the step that ends a handler answers 200 with the file completed, 500 with
\* the file in error (unless another request has taken the file up again),
\* and 404 for an id without document, leaving the store as it was
HandlerEnds ==
    \A h \in Handlers :
        pc[h] # pc'[h] /\ pc'[h] = "idle" /\ ~data'.writeFailed =>
            LET f == request'[h].id
            IN  /\ f \notin DOMAIN Files => result'[h].status = 404 /\ data' = data
                /\ f \in DOMAIN Files =>
                     /\ result'[h].status = IF Analyzable(Files[f]) THEN 200 ELSE 500
                     /\ data'.files[f].processingStatus \in
                          {IF Analyzable(Files[f]) THEN "completed" ELSE "error", "processing"}
MissingIdChangesNothing ==
    \A h \in Handlers :
        request'[h] # request[h] /\ request'[h].id \notin DOMAIN Files => data' = data

\* C30: processFile on an existing file sets processing, and the handler
\* ends with the file completed, the analysis stored, when reading and
\* analysis succeed, or in error with the message when a step throws; while
\* the writes succeed no file stays in processing; a request for an id
\* without document changes no file.
C30_ProcessingEndsCompletedOrError ==
    /\ []StatusFollowsOutcome
    /\ [][HandlerEnds /\ MissingIdChangesNothing]_vars
    /\ \A f \in 1..MaxFiles :
         (data.files[f].processingStatus = "processing")
            ~> (data.files[f].processingStatus \in {"completed", "error"} \/ data.writeFailed)

C30_Witness ==
    /\ ~data.writeFailed
    /\ pc[1] = "idle" /\ result[1].status = 200 /\ request[1].id = 1
    /\ pc[2] = "idle" /\ result[2].status = 404
    /\ data.files[1].processingStatus = "completed"
    /\ data.files[1].rowCount = 2

====
